---- MODULE Spec2Model ----
(***************************************************************************)
(* SecureChat end-to-end encryption: the browser crypto service            *)
(* (CryptoService: key pair, shared-key cache, AES-GCM codec), the React   *)
(* facade around it (CryptoProvider: isInitialized, initializeCrypto,      *)
(* encryptMessage, decryptMessage, clearCrypto) and the public-key         *)
(* directory of the backend (updatePublicKey, getPublicKey).               *)
(*                                                                         *)
(* Byte strings are sequences over 0..255, base64 text is a sequence of    *)
(* base64 digits 0..63 with 64 for '=' and 65 for an ASCII blank.  Text   *)
(* is a sequence of code points.  The Web Crypto primitives are modelled   *)
(* by a Diffie-Hellman group modulo a prime and by a stream cipher with a  *)
(* tag.                                                                    *)
(***************************************************************************)
EXTENDS Integers, Sequences, FiniteSets, TLC

\* ------------------------------------------------------------------------
\* Bounds of the model
\* ------------------------------------------------------------------------

\* Async calls of the provider that may be in flight at the same time.
MaxTasks == 2

\* Key pairs this browser generates over a run, and key pairs the peers do.
MaxKeys == 2

\* Calls of initializeCrypto, encryptMessage and decryptMessage over a run.
MaxCalls == 3

\* Logins over a run.
MaxLogins == 1

\* ------------------------------------------------------------------------
\* Byte and sequence helpers
\* ------------------------------------------------------------------------

Bytes(n, b) == [i \in 1..n |-> b]

Tail2(s, n) == SubSeq(s, n + 1, Len(s))

RECURSIVE SumSeq(_)
SumSeq(s) == IF Len(s) = 0 THEN 0 ELSE s[1] + SumSeq(Tail(s))

RECURSIVE WeightedSum(_, _)
WeightedSum(s, i) ==
    IF Len(s) = 0 THEN 0 ELSE i * s[1] + WeightedSum(Tail(s), i + 1)

\* ------------------------------------------------------------------------
\* base64 (btoa / atob)
\* ------------------------------------------------------------------------

B64Pad == 64
B64Blank == 65

\* window.btoa over the bytes of the buffer: 3 bytes -> 4 digits, '=' padding.
arrayBufferToBase64(buffer) ==
    LET n == Len(buffer)
        byte(i) == IF i <= n THEN buffer[i] ELSE 0
        digit(k) ==
            LET at == 3 * ((k - 1) \div 4)
                r == (k - 1) % 4
            IN  CASE r = 0 -> byte(at + 1) \div 4
                  [] r = 1 -> (byte(at + 1) % 4) * 16 + byte(at + 2) \div 16
                  [] r = 2 -> IF at + 2 > n THEN B64Pad
                              ELSE (byte(at + 2) % 16) * 4 + byte(at + 3) \div 64
                  [] r = 3 -> IF at + 3 > n THEN B64Pad ELSE byte(at + 3) % 64
    IN  [k \in 1..(4 * ((n + 2) \div 3)) |-> digit(k)]

StripBlanks(s) == SelectSeq(s, LAMBDA c : c # B64Blank)

\* atob removes one or two trailing '=' when the length is a multiple of 4.
StripPadding(s) ==
    IF Len(s) % 4 = 0 /\ Len(s) > 0 /\ s[Len(s)] = B64Pad THEN
        IF s[Len(s) - 1] = B64Pad
        THEN SubSeq(s, 1, Len(s) - 2)
        ELSE SubSeq(s, 1, Len(s) - 1)
    ELSE s

\* The number of bytes a run of digits decodes to.
DecodedLength(d) == (3 * Len(d)) \div 4

\* Four digits hold three bytes; a last group of two or three digits holds one
\* or two bytes and its spare low bits are dropped without being looked at.
DecodeDigits(d) ==
    LET m == Len(d)
        digit(i) == IF i <= m THEN d[i] ELSE 0
        byte(j) ==
            LET at == 4 * ((j - 1) \div 3)
                r == (j - 1) % 3
            IN  CASE r = 0 -> digit(at + 1) * 4 + digit(at + 2) \div 16
                  [] r = 1 -> (digit(at + 2) % 16) * 16 + digit(at + 3) \div 4
                  [] r = 2 -> (digit(at + 3) % 4) * 64 + digit(at + 4)
    IN  [j \in 1..DecodedLength(d) |-> byte(j)]

\* window.atob (forgiving base64 decode) into a byte buffer.  ok = FALSE is the
\* InvalidCharacterError atob throws.
base64ToArrayBuffer(base64) ==
    LET d == StripPadding(StripBlanks(base64))
    IN  IF Len(d) % 4 = 1 \/ \E i \in 1..Len(d) : d[i] > 63
        THEN [ok |-> FALSE, bytes |-> <<>>]
        ELSE [ok |-> TRUE, bytes |-> DecodeDigits(d)]

\* ------------------------------------------------------------------------
\* Text (TextEncoder / TextDecoder, UTF-8)
\* ------------------------------------------------------------------------

ReplacementChar == 65533
ByteOrderMark == 65279

\* TextEncoder.encode of well-formed text in the Basic Multilingual Plane.
RECURSIVE TextEncode(_)
TextEncode(text) ==
    IF Len(text) = 0 THEN <<>>
    ELSE LET c == text[1]
             head == IF c < 128 THEN << c >>
                     ELSE IF c < 2048 THEN << 192 + c \div 64, 128 + (c % 64) >>
                     ELSE << 224 + c \div 4096,
                             128 + ((c \div 64) % 64),
                             128 + (c % 64) >>
         IN  head \o TextEncode(Tail(text))

IsCont(b) == b >= 128 /\ b < 192

\* UTF-8 decode with replacement: a byte that starts no valid sequence becomes
\* U+FFFD and decoding goes on with the next byte.
RECURSIVE Utf8Decode(_)
Utf8Decode(b) ==
    IF Len(b) = 0 THEN <<>>
    ELSE IF b[1] < 128 THEN << b[1] >> \o Utf8Decode(Tail(b))
    ELSE IF b[1] >= 194 /\ b[1] < 224 /\ Len(b) >= 2 /\ IsCont(b[2]) THEN
        << (b[1] - 192) * 64 + (b[2] - 128) >> \o Utf8Decode(Tail2(b, 2))
    ELSE IF b[1] >= 224 /\ b[1] < 240 /\ Len(b) >= 3
            /\ IsCont(b[2]) /\ IsCont(b[3])
            /\ (b[1] = 224 => b[2] >= 160)
            /\ (b[1] = 237 => b[2] < 160) THEN
        << (b[1] - 224) * 4096 + (b[2] - 128) * 64 + (b[3] - 128) >>
            \o Utf8Decode(Tail2(b, 3))
    ELSE << ReplacementChar >> \o Utf8Decode(Tail(b))

\* new TextDecoder().decode: UTF-8 decode, then a leading U+FEFF is dropped.
TextDecode(b) ==
    LET t == Utf8Decode(b)
    IN  IF Len(t) > 0 /\ t[1] = ByteOrderMark THEN Tail(t) ELSE t

\* ------------------------------------------------------------------------
\* Web Crypto primitives: ECDH over P-256 and AES-GCM
\* ------------------------------------------------------------------------

\* The group stands for P-256: the powers of DhGen modulo DhPrime.  A private
\* key is a scalar, its public key the point DhGen^scalar, and the ECDH secret
\* of a private scalar and a peer point is point^scalar.
DhPrime == 251
DhGen == 6

\* The scalar of the n-th key pair generateKey hands out.  The products of two
\* of these are distinct and below the group order, so two different pairs of
\* key pairs never share a secret, as with P-256 up to negligible probability.
PrivateScalars == << 2, 3, 5, 7, 11, 13 >>

RECURSIVE PowMod(_, _)
PowMod(b, e) == IF e = 0 THEN 1 ELSE (b * PowMod(b, e - 1)) % DhPrime

PublicPoint(scalar) == PowMod(DhGen, scalar)

YCoord(x) == DhPrime - x

\* exportKey('raw', publicKey): the uncompressed point 0x04 || X || Y, 65 bytes.
RawPublicKey(point) ==
    << 4 >> \o Bytes(31, 0) \o << point >> \o Bytes(31, 0) \o << YCoord(point) >>

\* importKey('raw', keyData, ECDH P-256): only a 65-byte uncompressed point of
\* the curve is accepted.
ImportRawPublicKey(keyData) ==
    IF /\ Len(keyData) = 65
       /\ keyData[1] = 4
       /\ \A i \in 2..32 : keyData[i] = 0
       /\ keyData[33] >= 1 /\ keyData[33] < DhPrime
       /\ \A i \in 34..64 : keyData[i] = 0
       /\ keyData[65] = YCoord(keyData[33])
    THEN [ok |-> TRUE, point |-> keyData[33]]
    ELSE [ok |-> FALSE, point |-> 0]

\* exportKey('pkcs8', privateKey) and importKey('pkcs8', ...): a fixed
\* header followed by the scalar.
Pkcs8Header == << 48, 65, 2, 1, 0, 4 >>

Pkcs8(scalar) == Pkcs8Header \o << scalar >>

ImportPkcs8(keyData) ==
    IF /\ Len(keyData) = Len(Pkcs8Header) + 1
       /\ SubSeq(keyData, 1, Len(Pkcs8Header)) = Pkcs8Header
       /\ keyData[Len(keyData)] >= 1
       /\ keyData[Len(keyData)] < DhPrime - 1
    THEN [ok |-> TRUE, scalar |-> keyData[Len(keyData)]]
    ELSE [ok |-> FALSE, scalar |-> 0]

\* deriveBits({name: 'ECDH', public}, privateKey, 256): 32 bytes, big-endian.
DeriveBits(point, scalar) == Bytes(31, 0) \o << PowMod(point, scalar) >>

RECURSIVE BigEndian(_)
BigEndian(b) ==
    IF Len(b) = 0 THEN 0
    ELSE BigEndian(SubSeq(b, 1, Len(b) - 1)) * 256 + b[Len(b)]

\* importKey('raw', secret, AES-GCM): a key handle for 128, 192 or 256 bits.
\* The handle is the number the key bytes spell; 0 is no key.
ImportAesKey(raw) ==
    IF Len(raw) \in {16, 24, 32}
    THEN [ok |-> TRUE, key |-> BigEndian(raw) + 1]
    ELSE [ok |-> FALSE, key |-> 0]

TagLen == 16
IvLen == 12

GcmKeystream(key, iv, i) == (key * 7 + SumSeq(iv) + 13 * i) % 256

GcmCrypt(key, iv, data, sign) ==
    [i \in 1..Len(data) |->
        (data[i] + sign * GcmKeystream(key, iv, i) + 256) % 256]

\* The tag of AES-GCM: on the keys, IVs and ciphertexts of the model no two
\* different (key, iv, ciphertext) have the same tag.
GcmTag(key, iv, ct) ==
    << key % 256, (key \div 256) % 256, Len(iv) % 256, Len(ct) % 256,
       SumSeq(iv) % 256, WeightedSum(iv, 1) % 251,
       SumSeq(ct) % 256, WeightedSum(ct, 1) % 251 >>
    \o [i \in 1..8 |-> IF i <= Len(ct) THEN ct[i] ELSE 0]

\* subtle.encrypt({name: 'AES-GCM', iv, tagLength: 128}, key, data):
\* ciphertext followed by the 16-byte tag.
GcmEncrypt(key, iv, data) ==
    LET ct == GcmCrypt(key, iv, data, 1)
    IN  ct \o GcmTag(key, iv, ct)

\* A decryption that does not compare the tag (a cipher mode without
\* authentication).
GcmDecryptUnchecked(key, iv, data) ==
    IF Len(data) < TagLen \/ Len(iv) = 0
    THEN [ok |-> FALSE, bytes |-> <<>>]
    ELSE [ok |-> TRUE,
          bytes |-> GcmCrypt(key, iv, SubSeq(data, 1, Len(data) - TagLen), -1)]

\* subtle.decrypt: OperationError (ok = FALSE) when the data is shorter than a
\* tag, the IV is empty or the tag does not match.
GcmDecrypt(key, iv, data) ==
    IF Len(data) < TagLen \/ Len(iv) = 0
    THEN [ok |-> FALSE, bytes |-> <<>>]
    ELSE LET ct == SubSeq(data, 1, Len(data) - TagLen)
             tag == SubSeq(data, Len(data) - TagLen + 1, Len(data))
         IN  IF tag = GcmTag(key, iv, ct)
             THEN [ok |-> TRUE, bytes |-> GcmCrypt(key, iv, ct, -1)]
             ELSE [ok |-> FALSE, bytes |-> <<>>]

\* ------------------------------------------------------------------------
\* CryptoService: the pure part of its methods
\* ------------------------------------------------------------------------

\* exportPublicKey once exportKey has answered.
exportPublicKey(point) == arrayBufferToBase64(RawPublicKey(point))

\* importPublicKey: atob, then importKey; ok = FALSE is the error it rethrows.
importPublicKey(publicKeyBase64) ==
    LET keyData == base64ToArrayBuffer(publicKeyBase64)
    IN  IF keyData.ok THEN ImportRawPublicKey(keyData.bytes)
        ELSE [ok |-> FALSE, point |-> 0]

\* An encryptMessage that encrypts under an all-zero IV instead of the value
\* drawn for the call.
encryptMessageFixedIv(plaintext, sharedKey, iv) ==
    LET zero == [i \in 1..Len(iv) |-> 0]
        ciphertextBuffer == GcmEncrypt(sharedKey, zero, TextEncode(plaintext))
        n == Len(ciphertextBuffer)
    IN  [ciphertext |-> arrayBufferToBase64(SubSeq(ciphertextBuffer, 1, n - 16)),
         iv |-> arrayBufferToBase64(zero),
         authTag |-> arrayBufferToBase64(SubSeq(ciphertextBuffer, n - 15, n))]

\* encryptMessage once subtle.encrypt has answered: the last 16 bytes are the
\* tag, the rest the ciphertext, each field base64.
encryptMessage(plaintext, sharedKey, iv) ==
    LET ciphertextBuffer == GcmEncrypt(sharedKey, iv, TextEncode(plaintext))
        n == Len(ciphertextBuffer)
    IN  [ciphertext |-> arrayBufferToBase64(SubSeq(ciphertextBuffer, 1, n - 16)),
         iv |-> arrayBufferToBase64(iv),
         authTag |-> arrayBufferToBase64(SubSeq(ciphertextBuffer, n - 15, n))]

\* decryptMessage: every failure (atob, subtle.decrypt) becomes the one error
\* 'Failed to decrypt message...' (ok = FALSE).
decryptMessage(encryptedData, sharedKey) ==
    LET ciphertextBuffer == base64ToArrayBuffer(encryptedData.ciphertext)
        ivBuffer == base64ToArrayBuffer(encryptedData.iv)
        authTagBuffer == base64ToArrayBuffer(encryptedData.authTag)
    IN  IF ~(ciphertextBuffer.ok /\ ivBuffer.ok /\ authTagBuffer.ok)
        THEN [ok |-> FALSE, text |-> <<>>]
        ELSE LET plaintextBuffer ==
                     GcmDecrypt(sharedKey, ivBuffer.bytes,
                                ciphertextBuffer.bytes \o authTagBuffer.bytes)
             IN  IF plaintextBuffer.ok
                 THEN [ok |-> TRUE, text |-> TextDecode(plaintextBuffer.bytes)]
                 ELSE [ok |-> FALSE, text |-> <<>>]

\* The AES key deriveSharedKey computes on a cache miss from the peer's
\* published key text and a private scalar (0 when the text is no key).
DerivedKey(publicKeyBase64, scalar) ==
    LET imported == importPublicKey(publicKeyBase64)
    IN  IF imported.ok
        THEN ImportAesKey(DeriveBits(imported.point, scalar)).key
        ELSE 0

\* The key text exportPublicKey returns for the n-th key pair generateKey
\* hands out.
ExportedKeys ==
    [n \in 1..Len(PrivateScalars) |->
        exportPublicKey(PublicPoint(PrivateScalars[n]))]

\* ------------------------------------------------------------------------
\* Backend: the public-key directory
\* ------------------------------------------------------------------------

\* Buffer.from(text, 'base64'): decoding ends at the first '=', characters
\* outside the alphabet are skipped, a single left-over digit is dropped.
UpToPad(s) ==
    LET pads == { i \in 1..Len(s) : s[i] = B64Pad }
    IN  IF pads = {} THEN s
        ELSE SubSeq(s, 1, (CHOOSE i \in pads : \A j \in pads : i <= j) - 1)

BufferDigits(text) ==
    LET d == SelectSeq(UpToPad(text), LAMBDA c : c < 64)
    IN  IF Len(d) % 4 = 1 THEN SubSeq(d, 1, Len(d) - 1) ELSE d

BufferFromBase64(text) == DecodeDigits(BufferDigits(text))

\* CryptoService.isValidPublicKey of the backend: buffer.length, the number
\* of bytes Buffer.from decodes the text to, is 65 or 33.
isValidPublicKey(publicKeyBase64) ==
    /\ Len(publicKeyBase64) > 0
    /\ DecodedLength(BufferDigits(publicKeyBase64)) \in {65, 33}

\* An updatePublicKey that keeps a key the user already has.
updatePublicKeyInsertOnly(dir, userId, publicKey) ==
    IF userId = "" THEN [status |-> 401, dir |-> dir]
    ELSE IF Len(publicKey) = 0 \/ ~isValidPublicKey(publicKey)
    THEN [status |-> 400, dir |-> dir]
    ELSE IF userId \notin DOMAIN dir THEN [status |-> 404, dir |-> dir]
    ELSE IF Len(dir[userId]) > 0 THEN [status |-> 200, dir |-> dir]
    ELSE [status |-> 200, dir |-> [dir EXCEPT ![userId] = publicKey]]

\* An updatePublicKey that writes the record before it validates the key.
updatePublicKeyStoreFirst(dir, userId, publicKey) ==
    IF userId = "" THEN [status |-> 401, dir |-> dir]
    ELSE IF userId \notin DOMAIN dir THEN [status |-> 404, dir |-> dir]
    ELSE IF Len(publicKey) = 0 \/ ~isValidPublicKey(publicKey)
    THEN [status |-> 400, dir |-> [dir EXCEPT ![userId] = publicKey]]
    ELSE [status |-> 200, dir |-> [dir EXCEPT ![userId] = publicKey]]

\* updatePublicKey for the authenticated user (userId = "" : the auth
\* middleware rejects the request).  dir maps each user that has a record to
\* the stored key text, <<>> when none is stored.  The key is checked first
\* (400); findByIdAndUpdate finds no record: 404.
updatePublicKey(dir, userId, publicKey) ==
    IF userId = "" THEN [status |-> 401, dir |-> dir]
    ELSE IF Len(publicKey) = 0 \/ ~isValidPublicKey(publicKey)
    THEN [status |-> 400, dir |-> dir]
    ELSE IF userId \notin DOMAIN dir THEN [status |-> 404, dir |-> dir]
    ELSE [status |-> 200, dir |-> [dir EXCEPT ![userId] = publicKey]]

\* getPublicKey: 404 when there is no such user or the user has no key
\* stored (every id of the model has the form the controller accepts).
getPublicKey(dir, userId) ==
    IF userId \notin DOMAIN dir THEN [status |-> 404, publicKey |-> <<>>]
    ELSE IF Len(dir[userId]) = 0 THEN [status |-> 404, publicKey |-> <<>>]
    ELSE [status |-> 200, publicKey |-> dir[userId]]

\* ------------------------------------------------------------------------
\* State
\* ------------------------------------------------------------------------

Users == {"u1", "u2"}

\* The accounts that log in on this browser; the other users are peers on
\* devices of their own.
Accounts == {"u1"}

\* The message text ("Hé") and the values getRandomValues may return.
Plaintexts == { << 72, 233 >> }

IvChoices == { [i \in 1..IvLen |-> i], [i \in 1..IvLen |-> 2 * i + 1] }

TaskIds == 1..MaxTasks

VARIABLES
    keyPair,        \* CryptoService.keyPair; privateKey = 0 : null
    sharedKeys,     \* CryptoService.sharedKeys: user id -> AES key, 0 : no entry
    user,           \* id of the logged-in user (state.user.userDetails), "" : none
    isInitialized,  \* CryptoProvider state
    isLoading,      \* CryptoProvider state
    publicKey,      \* CryptoProvider state: key text, <<>> : null
    error,          \* CryptoProvider state: message, "" : null
    initializationAttempted,  \* the ref of the auto-initialize effect
    effectDeps,     \* the dependencies the auto-initialize effect last ran with
    localStorage,   \* privateKey_<user id> -> stored text, <<>> : no entry
    directory,      \* backend User.publicKey: user id -> key text, <<>> : none
    remoteKey,      \* private scalar a user holds on another device, 0 : none
    nextKey,        \* key pairs this browser has generated so far
    peerKeys,       \* key pairs the peers have generated so far
    logins,         \* logins so far
    tasks,          \* the async calls in flight: slot -> call record
    codec,          \* an envelope on its way through the codec (CodecSpec)
    request,        \* the last request to the key directory and its answer
    chat,           \* ChatPage, the chat slice and the message store (ChatSpec)
    calls           \* provider calls made so far

vars == << keyPair, sharedKeys, user, isInitialized, isLoading, publicKey,
           error, initializationAttempted, effectDeps, localStorage,
           directory, remoteKey, nextKey, peerKeys, logins, tasks, codec,
           request, chat, calls >>

serviceVars == << keyPair, sharedKeys >>
reactVars == << isInitialized, isLoading, publicKey, error >>
envVars == << localStorage, directory, remoteKey, nextKey, peerKeys, logins >>
idleVars == << envVars, calls >>

NoKeyPair == [privateKey |-> 0, publicKey |-> 0]

\* No request has been made to the directory.  before: the directory as the
\* request found it; acked: for each user the key of the last publish that was
\* answered 200.
NoRequest ==
    [op |-> "none", auth |-> "", id |-> "", publicKey |-> <<>>, status |-> 0,
     answer |-> <<>>, before |-> [u \in Users |-> <<>>],
     acked |-> [u \in Users |-> <<>>]]

NoEnvelope == [ciphertext |-> <<>>, iv |-> <<>>, authTag |-> <<>>]

\* One async call of the provider.  op: initializeCrypto ("init"),
\* encryptMessage ("encrypt") or decryptMessage ("decrypt"); pc: the await it
\* is suspended at, "done" once it has settled; ret/err: what it returned or
\* threw.  The last fields record what the call did, for the properties:
\* miss: no key was cached for the peer when the call was made; cleared: the
\* keys were cleared under it; nullCall/nullErr: a service method it called
\* with no key pair, and the error that method threw; mine/peer: the private
\* key held and the peer point passed when it called encryptForUser or
\* decryptFromUser; transport: its fetch of the peer's key failed with
\* something other than a 404 of the directory; load: what loadPrivateKey
\* met, "absent" (no entry stored, it returned false), "failed" (an entry is
\* stored, decoding or importing it threw, it returned false) or "loaded".
IdleTask ==
    [op |-> "none", pc |-> "idle", id |-> "", force |-> FALSE,
     text |-> <<>>, env |-> NoEnvelope, data |-> <<>>, auth |-> "",
     point |-> 0, scalar |-> 0, key |-> 0, iv |-> <<>>,
     ret |-> "", err |-> "", out |-> <<>>,
     miss |-> FALSE, fetched |-> FALSE, derived |-> FALSE,
     generated |-> FALSE, published |-> FALSE, persisted |-> FALSE,
     cleared |-> FALSE, nullCall |-> "", nullErr |-> "",
     mine |-> 0, peer |-> 0, transport |-> FALSE, load |-> ""]

InFlight(t) == tasks[t].pc \notin {"idle", "done"}

HasFree == \E t \in TaskIds : tasks[t].pc = "idle"

\* A settled call: the continuation of its caller is the next thing to run.
ResultPending == \E t \in TaskIds : tasks[t].pc = "done"

\* The effect is pending after a render that changed one of its dependencies;
\* React runs it before it handles the next event.
EffectPending == << user, isInitialized, isLoading >> # effectDeps

\* Nothing is pending: the next event is handled.
Quiet == ~ResultPending /\ ~EffectPending

\* The run goes on: a call is in flight or a call can still be made.
Active == calls < MaxCalls \/ \E t \in TaskIds : InFlight(t)

\* A call is made: a slot is free and the run has calls left.
MakeCall == HasFree /\ calls < MaxCalls /\ calls' = calls + 1

FreeSlot == CHOOSE t \in TaskIds :
    tasks[t].pc = "idle" /\ \A s \in TaskIds : s < t => tasks[s].pc # "idle"

\* A call that has settled keeps only what it returned and what it did.
Settled(rec) ==
    [rec EXCEPT !.pc = "done", !.data = <<>>, !.auth = "", !.point = 0,
                !.scalar = 0, !.key = 0, !.iv = <<>>]

Return(rec, ret) == [Settled(rec) EXCEPT !.ret = ret]

Throw(rec, err) == [Settled(rec) EXCEPT !.err = err]

\* The record of slot t becomes next.
Put(t, next) == tasks' = [tasks EXCEPT ![t] = next]

\* ------------------------------------------------------------------------
\* Backend: the messages of a conversation (postMessage, getMessages)
\* ------------------------------------------------------------------------

\* The conversation of the two users and its participants.
Conversation == "c1"

Participants == {"u1", "u2"}

\* No message: the fields of a formatted message, all empty.
NoMessage ==
    [id |-> 0, conversationId |-> "", senderId |-> "", receiverId |-> "",
     text |-> <<>>, encryptedData |-> <<>>, iv |-> <<>>, authTag |-> <<>>,
     isEncrypted |-> FALSE]

\* The answer of a request that was rejected.
Rejected(status, db) ==
    [status |-> status, db |-> db, message |-> NoMessage,
     emitted |-> NoMessage]

\* A postMessage that does not store the authTag of the body.
postMessageWithoutTag(db, currentUserId, body) ==
    IF currentUserId = "" THEN Rejected(401, db)
    ELSE IF body.conversationId # Conversation THEN Rejected(404, db)
    ELSE IF currentUserId \notin Participants THEN Rejected(403, db)
    ELSE
        LET receiverId == CHOOSE p \in Participants : p # currentUserId
            formattedMessage ==
                [id |-> Len(db) + 1, conversationId |-> Conversation,
                 senderId |-> "me", receiverId |-> receiverId,
                 text |-> body.text,
                 encryptedData |->
                     IF body.isEncrypted THEN body.encryptedData ELSE <<>>,
                 iv |-> IF body.isEncrypted THEN body.iv ELSE <<>>,
                 authTag |-> <<>>,
                 isEncrypted |-> body.isEncrypted]
        IN  [status |-> 201,
             db |-> Append(db, [formattedMessage EXCEPT
                                    !.senderId = currentUserId]),
             message |-> formattedMessage,
             emitted |-> [formattedMessage EXCEPT !.senderId = currentUserId]]

\* postMessage with the token of currentUserId ("" : no token): the message
\* is stored with the other participant as receiver; the answer carries it
\* with senderId 'me', the 'newMessage' emission to the room with the
\* sender's id.  A field the body does not carry is stored and returned as
\* '' (<<>>).  db holds the stored messages in the order of posting; a
\* message's id is its place.
postMessage(db, currentUserId, body) ==
    IF currentUserId = "" THEN Rejected(401, db)
    ELSE IF body.conversationId # Conversation THEN Rejected(404, db)
    ELSE IF currentUserId \notin Participants THEN Rejected(403, db)
    ELSE
        LET receiverId == CHOOSE p \in Participants : p # currentUserId
            formattedMessage ==
                [id |-> Len(db) + 1, conversationId |-> Conversation,
                 senderId |-> "me", receiverId |-> receiverId,
                 text |-> body.text,
                 encryptedData |->
                     IF body.isEncrypted THEN body.encryptedData ELSE <<>>,
                 iv |-> IF body.isEncrypted THEN body.iv ELSE <<>>,
                 authTag |-> IF body.isEncrypted THEN body.authTag ELSE <<>>,
                 isEncrypted |-> body.isEncrypted]
        IN  [status |-> 201,
             db |-> Append(db, [formattedMessage EXCEPT
                                    !.senderId = currentUserId]),
             message |-> formattedMessage,
             emitted |-> [formattedMessage EXCEPT !.senderId = currentUserId]]

\* Message.find(...).sort({ timestamp: 1 }).limit(100)
MessageLimit == 100

\* getMessages with the token of currentUserId: the first MessageLimit
\* stored messages, the reader's own with senderId 'me'.
getMessages(db, currentUserId) ==
    IF currentUserId = "" THEN [status |-> 401, messages |-> <<>>]
    ELSE IF currentUserId \notin Participants
    THEN [status |-> 403, messages |-> <<>>]
    ELSE [status |-> 200,
          messages |->
              [i \in 1..(IF Len(db) < MessageLimit THEN Len(db)
                         ELSE MessageLimit) |->
                  [db[i] EXCEPT
                      !.senderId = IF @ = currentUserId THEN "me" ELSE @]]]

\* The number of messages a run posts.
MaxMessages == 2

MessageIds == 1..MaxMessages

\* The chat before anything happened.
\*   db: the Message collection of the conversation, in the order of posting
\*     (the id of a message is its place);
\*   messages: state.chat.messages; activeId: the conversation that is open;
\*   isCryptoInitialized: isInitialized of the crypto context;
\*   decryptedMessages, processedMessageIds: the state of ChatPage (a text
\*     of <<>> is no entry);
\*   handlerIds: the processedMessageIds of the render whose handleNewMessage
\*     is subscribed to the socket;
\*   socket: the 'newMessage' events on their way to this client;
\*   incoming: decryptMessage calls of handleNewMessage that are awaited;
\*   pass: the decryptMessagesAsync call in flight; passDue: the decrypt
\*     effect has to run; fetchDue: fetchMessages was dispatched;
\*   send: the handleSend call in flight;
\*   peerSent: the answer the peer's handleSend is waiting for;
\*   added: how often handleNewMessage dispatched addMessage for each id;
\*   decryptCalls: the (message id, peer id) of every decryptMessage call;
\*   posts: for each stored message the body that was posted, the answer and
\*     the 'newMessage' emission of postMessage.
NoPass == [pc |-> "idle", list |-> <<>>, seen |-> [i \in MessageIds |-> <<>>],
           at |-> 0, peer |-> "", newDecrypted |-> [i \in MessageIds |-> <<>>]]

NoSend == [pc |-> "idle", text |-> <<>>, payload |-> NoMessage,
           response |-> NoMessage]

NoChat ==
    [db |-> <<>>, messages |-> <<>>, activeId |-> "",
     isCryptoInitialized |-> FALSE,
     decryptedMessages |-> [i \in MessageIds |-> <<>>],
     processedMessageIds |-> {}, handlerIds |-> {},
     socket |-> <<>>, incoming |-> {}, pass |-> NoPass, passDue |-> FALSE,
     fetchDue |-> FALSE, send |-> NoSend,
     peerSent |-> NoMessage,
     added |-> [i \in MessageIds |-> 0], decryptCalls |-> {}, posts |-> <<>>]

\* No envelope was produced before.
NoPrevious == [key |-> 0, drawn |-> <<>>, iv |-> <<>>]

\* No envelope is in the codec.  drawn: the value getRandomValues returned
\* to the encryptMessage call; previous: the key, the drawn value and the iv
\* field of the envelope produced before this one.
NoCodec ==
    [pc |-> "idle", text |-> <<>>, sealKey |-> 0, sealed |-> NoEnvelope,
     env |-> NoEnvelope, altered |-> 0, openKey |-> 0,
     result |-> [ok |-> FALSE, text |-> <<>>],
     drawn |-> <<>>, previous |-> NoPrevious]

Init ==
    /\ keyPair = NoKeyPair
    /\ sharedKeys = [u \in Users |-> 0]
    /\ user = ""
    /\ isInitialized = FALSE
    /\ isLoading = FALSE
    /\ publicKey = <<>>
    /\ error = ""
    /\ initializationAttempted = FALSE
    /\ effectDeps = << "", FALSE, FALSE >>
    /\ localStorage = [u \in Users |-> <<>>]
    /\ directory = [u \in Users |-> <<>>]
    /\ remoteKey = [u \in Users |-> 0]
    /\ nextKey = 0
    /\ peerKeys = 0
    /\ logins = 0
    /\ tasks = [t \in TaskIds |-> IdleTask]
    /\ codec = NoCodec
    /\ request = NoRequest
    /\ chat = NoChat
    /\ calls = 0

\* ------------------------------------------------------------------------
\* CryptoProvider.initializeCrypto
\* ------------------------------------------------------------------------

\* err.message of a request that failed: no answer, or an answer with an
\* error status.
RequestFailed == "Request failed"

\* The catch and finally of initializeCrypto.
InitFailed(t, message) ==
    /\ error' = message
    /\ isLoading' = FALSE
    /\ Put(t, Return(tasks[t], "false"))
    /\ UNCHANGED << isInitialized, publicKey >>

\* setIsInitialized(true); return true; finally setIsLoading(false).
InitSucceeded(t, rec) ==
    /\ isInitialized' = TRUE
    /\ isLoading' = FALSE
    /\ Put(t, Return(rec, "true"))

\* cryptoService.initialize() up to its await: generateKey is called.
CallGenerateKey(rec) == [rec EXCEPT !.pc = "generateKey", !.data = <<>>]

\* The call of initializeCrypto(forceReinit) up to its first await, with the
\* isInitialized and user of the render the callback belongs to.  When a key
\* is stored loadPrivateKey decodes it and awaits importKey; when none is
\* stored, or atob throws, it returns false and initialize() is called.
initializeCrypto(t, forceReinit) ==
    LET rec == [IdleTask EXCEPT !.op = "init", !.id = user,
                                !.force = forceReinit]
        base64 == localStorage[user]
        keyData == base64ToArrayBuffer(base64)
    IN  IF isInitialized /\ ~forceReinit THEN
            /\ Put(t, Return(rec, "true"))
            /\ UNCHANGED reactVars
        ELSE IF user = "" THEN
            /\ Put(t, Return(rec, "false"))
            /\ UNCHANGED reactVars
        ELSE
            /\ isLoading' = TRUE
            /\ error' = ""
            /\ UNCHANGED << isInitialized, publicKey >>
            /\ Put(t, IF Len(base64) = 0
                   THEN CallGenerateKey([rec EXCEPT !.load = "absent"])
                   ELSE IF ~keyData.ok
                   THEN CallGenerateKey([rec EXCEPT !.load = "failed"])
                   ELSE [rec EXCEPT !.pc = "importPkcs8",
                                    !.data = keyData.bytes])

\* initializeCrypto called through the context value.
CallInitializeCrypto(forceReinit) ==
    /\ Quiet /\ MakeCall
    /\ initializeCrypto(FreeSlot, forceReinit)
    /\ UNCHANGED << codec, request, chat, serviceVars, user, initializationAttempted,
                    effectDeps, envVars >>

\* The auto-initialize effect: it runs after a render in which user?.id,
\* isInitialized or isLoading changed.
AutoInitialize ==
    LET deps == << user, isInitialized, isLoading >>
        starts == user # "" /\ ~isInitialized /\ ~isLoading
                  /\ ~initializationAttempted
    IN  /\ ~ResultPending
        /\ deps # effectDeps
        /\ effectDeps' = deps
        /\ IF starts
           THEN /\ MakeCall
                /\ initializationAttempted' = TRUE
                /\ initializeCrypto(FreeSlot, FALSE)
           ELSE /\ initializationAttempted' =
                       (IF user = "" THEN FALSE ELSE initializationAttempted)
                /\ UNCHANGED << reactVars, tasks, calls >>
        /\ UNCHANGED << codec, request, chat, serviceVars, user, envVars >>

\* loadPrivateKey after importKey('pkcs8'): the key pair becomes the loaded
\* private key with no public key, and the own public key is requested; when
\* the import fails loadPrivateKey returns false and a key pair is generated.
LoadPrivateKeyImported(t) ==
    LET rec == tasks[t]
        imported == ImportPkcs8(rec.data)
    IN  /\ Quiet
        /\ rec.op = "init" /\ rec.pc = "importPkcs8"
        /\ IF imported.ok
           THEN /\ keyPair' = [privateKey |-> imported.scalar, publicKey |-> 0]
                /\ Put(t, [rec EXCEPT !.pc = "getOwnKey", !.data = <<>>,
                                    !.load = "loaded"])
           ELSE /\ keyPair' = keyPair
                /\ Put(t, CallGenerateKey([rec EXCEPT !.load = "failed"]))
        /\ UNCHANGED << codec, request, chat, sharedKeys, user, reactVars,
                        initializationAttempted, effectDeps, idleVars >>

\* The answer to GET /users/<id>/public-key for the own key: 200 makes the
\* provider Ready, 404 starts a regeneration, anything else fails the call.
OwnKeyFetched(t) ==
    LET rec == tasks[t]
        response == getPublicKey(directory, rec.id)
    IN  /\ Quiet
        /\ rec.op = "init" /\ rec.pc = "getOwnKey"
        /\ \/ /\ response.status = 200
              /\ publicKey' = response.publicKey
              /\ error' = error
              /\ InitSucceeded(t, rec)
           \/ /\ response.status = 404
              /\ Put(t, CallGenerateKey(rec))
              /\ UNCHANGED reactVars
           \/ /\ InitFailed(t, RequestFailed)
        /\ UNCHANGED << codec, request, chat,
                        serviceVars, user, initializationAttempted,
                        effectDeps, idleVars >>

\* initialize() after generateKey: the key pair is replaced by a fresh one;
\* then exportPublicKey() calls exportKey('raw') on its public key.
KeyGenerated(t) ==
    LET rec == tasks[t]
        scalar == PrivateScalars[nextKey + 1]
    IN  /\ Quiet
        /\ rec.op = "init" /\ rec.pc = "generateKey"
        /\ nextKey < MaxKeys
        /\ nextKey' = nextKey + 1
        /\ keyPair' = [privateKey |-> scalar, publicKey |-> PublicPoint(scalar)]
        /\ Put(t, [rec EXCEPT !.pc = "exportKey", !.point = PublicPoint(scalar),
                           !.generated = TRUE])
        /\ UNCHANGED << codec, request, chat, sharedKeys, user, reactVars,
                        initializationAttempted, effectDeps, localStorage,
                        directory, remoteKey, peerKeys, logins, calls >>

\* exportPublicKey returns the key text; setPublicKey; the PUT is sent with
\* the credentials of the user logged in at that moment.
PublicKeyExported(t) ==
    LET rec == tasks[t]
        pubKey == exportPublicKey(rec.point)
    IN  /\ Quiet
        /\ rec.op = "init" /\ rec.pc = "exportKey"
        /\ publicKey' = pubKey
        /\ Put(t, [rec EXCEPT !.pc = "putKey", !.data = pubKey, !.auth = user,
                           !.point = 0])
        /\ UNCHANGED << codec, request, chat,
                        serviceVars, user, isInitialized, isLoading,
                        error, initializationAttempted, effectDeps, idleVars >>

\* savePrivateKey up to its await.  With no key pair, reading
\* this.keyPair.privateKey throws inside its try, the catch only logs, and
\* savePrivateKey returns; initializeCrypto then sets Ready.
savePrivateKey(t, rec) ==
    IF keyPair.privateKey = 0
    THEN /\ InitSucceeded(t, [rec EXCEPT !.nullCall = "savePrivateKey",
                                         !.nullErr = ""])
         /\ UNCHANGED << publicKey, error >>
    ELSE /\ Put(t, [rec EXCEPT !.pc = "exportPkcs8",
                            !.scalar = keyPair.privateKey])
         /\ UNCHANGED reactVars

\* The answer to PUT /users/public-key: the backend stores the key for the
\* authenticated user, then savePrivateKey(user.id) is called; a failed
\* request fails the call.
PublicKeyPut(t) ==
    LET rec == tasks[t]
        response == updatePublicKey(directory, rec.auth, rec.data)
    IN  /\ Quiet
        /\ rec.op = "init" /\ rec.pc = "putKey"
        /\ \/ /\ response.status = 200
              /\ directory' = response.dir
              /\ savePrivateKey(t, [rec EXCEPT !.data = <<>>, !.auth = "",
                                               !.published = TRUE])
           \/ /\ directory' = directory
              /\ InitFailed(t, RequestFailed)
        /\ UNCHANGED << codec, request, chat,
                        serviceVars, user, initializationAttempted,
                        effectDeps, localStorage, remoteKey, nextKey, peerKeys,
                        logins, calls >>

\* savePrivateKey after exportKey('pkcs8'): localStorage.setItem, whose
\* failure is only logged; initializeCrypto then sets Ready.
PrivateKeyExported(t) ==
    LET rec == tasks[t]
        base64 == arrayBufferToBase64(Pkcs8(rec.scalar))
    IN  /\ Quiet
        /\ rec.op = "init" /\ rec.pc = "exportPkcs8"
        /\ \/ /\ localStorage' = [localStorage EXCEPT ![rec.id] = base64]
              /\ InitSucceeded(t, [rec EXCEPT !.persisted = TRUE])
           \/ /\ localStorage' = localStorage
              /\ InitSucceeded(t, rec)
        /\ UNCHANGED << codec, request, chat, serviceVars, user, publicKey, error,
                        initializationAttempted, effectDeps, directory,
                        remoteKey, nextKey, peerKeys, logins, calls >>

\* ------------------------------------------------------------------------
\* CryptoProvider.encryptMessage / decryptMessage
\* ------------------------------------------------------------------------

DecryptionFailed == "[Decryption failed: Message may be corrupted]"

\* The catch of the facade: encryptMessage rethrows, decryptMessage returns
\* the placeholder text.
FacadeCatch(rec, message) ==
    IF rec.op = "decrypt"
    THEN Return(rec, DecryptionFailed)
    ELSE Throw(rec, message)

\* CryptoService.encryptMessage / decryptMessage up to the await of
\* subtle.encrypt / subtle.decrypt, with the shared key to use: the records
\* the call may continue as (one per value of the random IV).
CipherCall(rec, sharedKey) ==
    IF rec.op = "encrypt"
    THEN { [rec EXCEPT !.pc = "cipher", !.key = sharedKey, !.iv = iv,
                       !.data = <<>>] : iv \in IvChoices }
    ELSE IF /\ base64ToArrayBuffer(rec.env.ciphertext).ok
            /\ base64ToArrayBuffer(rec.env.iv).ok
            /\ base64ToArrayBuffer(rec.env.authTag).ok
    THEN { [rec EXCEPT !.pc = "cipher", !.key = sharedKey, !.data = <<>>] }
    ELSE { FacadeCatch([rec EXCEPT !.key = sharedKey],
                       "Failed to decrypt message") }

\* deriveSharedKey(otherUserPublicKeyBase64, userId) up to its first await:
\* no key pair is an error, a cached key is returned at once, otherwise the
\* peer key is decoded and importKey is awaited.
deriveSharedKey(call, otherUserPublicKeyBase64) ==
    LET keyData == base64ToArrayBuffer(otherUserPublicKeyBase64)
        rec == [call EXCEPT
                   !.mine = keyPair.privateKey,
                   !.peer = importPublicKey(otherUserPublicKeyBase64).point]
    IN  IF keyPair.privateKey = 0 THEN
            { FacadeCatch([rec EXCEPT !.nullCall = "deriveSharedKey",
                                      !.nullErr = "Crypto not initialized"],
                          "Crypto not initialized") }
        ELSE IF sharedKeys[rec.id] # 0 THEN
            CipherCall(rec, sharedKeys[rec.id])
        ELSE IF ~keyData.ok THEN
            { FacadeCatch(rec, "InvalidCharacterError") }
        ELSE
            { [rec EXCEPT !.pc = "importKey", !.data = keyData.bytes] }

\* The facade call up to its first await: not initialized throws (outside the
\* try), otherwise the peer's public key is requested.
FacadeCall(rec) ==
    IF ~isInitialized
    THEN Throw(rec, "Crypto not initialized")
    ELSE [rec EXCEPT !.pc = "fetchKey", !.fetched = TRUE,
                     !.miss = (sharedKeys[rec.id] = 0)]

\* encryptMessage(plaintext, recipientId) called through the context value.
CallEncryptMessage(plaintext, recipientId) ==
    /\ Quiet /\ MakeCall
    /\ Put(FreeSlot, FacadeCall([IdleTask EXCEPT !.op = "encrypt",
                                                 !.id = recipientId,
                                                 !.text = plaintext]))
    /\ UNCHANGED << codec, request, chat, serviceVars, user, reactVars,
                    initializationAttempted, effectDeps, envVars >>

\* What the user on the other device sends: a message encrypted for the key
\* this user has published, or a stored message whose fields are empty.
ReceivedEnvelopes(senderId) ==
    LET key == IF user = "" \/ remoteKey[senderId] = 0 THEN 0
               ELSE DerivedKey(directory[user], remoteKey[senderId])
        text == CHOOSE p \in Plaintexts : TRUE
        iv == CHOOSE v \in IvChoices : TRUE
    IN  { NoEnvelope } \cup
        IF key = 0 THEN {} ELSE { encryptMessage(text, key, iv) }

\* decryptMessage(encryptedData, senderId) called through the context value.
CallDecryptMessage(senderId) ==
    /\ Quiet /\ MakeCall
    /\ \E encryptedData \in ReceivedEnvelopes(senderId) :
           Put(FreeSlot, FacadeCall([IdleTask EXCEPT !.op = "decrypt",
                                                     !.id = senderId,
                                                     !.env = encryptedData]))
    /\ UNCHANGED << codec, request, chat, serviceVars, user, reactVars,
                    initializationAttempted, effectDeps, envVars >>

\* The error getUserPublicKey throws from its catch.
PeerNotReady == "User has not set up encryption yet"

\* getUserPublicKey: the answer to GET /users/<id>/public-key.  Any failure
\* (a 404 of the directory, another status, no answer at all) becomes
\* PeerNotReady; with the key, encryptForUser / decryptFromUser call
\* deriveSharedKey.
PeerKeyFetched(t) ==
    LET rec == tasks[t]
        response == getPublicKey(directory, rec.id)
    IN  /\ Quiet
        /\ rec.op \in {"encrypt", "decrypt"} /\ rec.pc = "fetchKey"
        /\ \/ /\ response.status = 200
              /\ \E next \in deriveSharedKey(rec, response.publicKey) :
                     Put(t, next)
           \/ /\ response.status = 404
              /\ Put(t, FacadeCatch(rec, PeerNotReady))
           \/ /\ Put(t, FacadeCatch([rec EXCEPT !.transport = TRUE],
                                    PeerNotReady))
        /\ UNCHANGED << codec, request, chat, serviceVars, user, reactVars,
                        initializationAttempted, effectDeps, idleVars >>

\* A PeerKeyImported that caches a key for the peer although the import of
\* the peer's public key failed.
PeerKeyImportedCaching(t) ==
    LET rec == tasks[t]
        imported == ImportRawPublicKey(rec.data)
    IN  /\ Quiet
        /\ rec.op \in {"encrypt", "decrypt"} /\ rec.pc = "importKey"
        /\ Put(t, IF ~imported.ok THEN FacadeCatch(rec, "DataError")
               ELSE IF keyPair.privateKey = 0 THEN FacadeCatch(rec, "TypeError")
               ELSE [rec EXCEPT !.pc = "deriveBits", !.data = <<>>,
                                !.point = imported.point,
                                !.scalar = keyPair.privateKey,
                                !.derived = TRUE])
        /\ sharedKeys' = IF imported.ok THEN sharedKeys
                         ELSE [sharedKeys EXCEPT ![rec.id] = 1]
        /\ UNCHANGED << codec, request, chat, keyPair, user, reactVars,
                        initializationAttempted, effectDeps, idleVars >>

\* importPublicKey after importKey('raw'); then deriveBits is called with
\* this.keyPair.privateKey as it is now (a TypeError when keyPair is null).
PeerKeyImported(t) ==
    LET rec == tasks[t]
        imported == ImportRawPublicKey(rec.data)
    IN  /\ Quiet
        /\ rec.op \in {"encrypt", "decrypt"} /\ rec.pc = "importKey"
        /\ Put(t, IF ~imported.ok THEN FacadeCatch(rec, "DataError")
               ELSE IF keyPair.privateKey = 0 THEN FacadeCatch(rec, "TypeError")
               ELSE [rec EXCEPT !.pc = "deriveBits", !.data = <<>>,
                                !.point = imported.point,
                                !.scalar = keyPair.privateKey,
                                !.derived = TRUE])
        /\ UNCHANGED << codec, request, chat, serviceVars, user, reactVars,
                        initializationAttempted, effectDeps, idleVars >>

\* deriveBits has answered; importKey('raw', sharedSecret, AES-GCM) is called.
SecretDerived(t) ==
    LET rec == tasks[t]
    IN  /\ Quiet
        /\ rec.op \in {"encrypt", "decrypt"} /\ rec.pc = "deriveBits"
        /\ Put(t, [rec EXCEPT !.pc = "importAes", !.point = 0,
                           !.data = DeriveBits(rec.point, rec.scalar)])
        /\ UNCHANGED << codec, request, chat, serviceVars, user, reactVars,
                        initializationAttempted, effectDeps, idleVars >>

\* The AES key is imported: this.sharedKeys.set(userId, sharedKey), and the
\* message is encrypted or decrypted with it.
SharedKeyImported(t) ==
    LET rec == tasks[t]
        sharedKey == ImportAesKey(rec.data).key
    IN  /\ Quiet
        /\ rec.op \in {"encrypt", "decrypt"} /\ rec.pc = "importAes"
        /\ sharedKeys' = [sharedKeys EXCEPT ![rec.id] = sharedKey]
        /\ \E next \in CipherCall(rec, sharedKey) :
               Put(t, next)
        /\ UNCHANGED << codec, request, chat, keyPair, user, reactVars,
                        initializationAttempted, effectDeps, idleVars >>

\* subtle.encrypt / subtle.decrypt has answered: the envelope or the text is
\* returned, a failed decryption goes to the facade's catch.
MessageCiphered(t) ==
    LET rec == tasks[t]
        decrypted == decryptMessage(rec.env, rec.key)
    IN  /\ Quiet
        /\ rec.op \in {"encrypt", "decrypt"} /\ rec.pc = "cipher"
        /\ Put(t, IF rec.op = "encrypt"
               THEN [Return(rec, "envelope") EXCEPT
                        !.env = encryptMessage(rec.text, rec.key, rec.iv)]
               ELSE IF decrypted.ok
               THEN [Return(rec, "text") EXCEPT !.out = decrypted.text]
               ELSE FacadeCatch(rec, "Failed to decrypt message"))
        /\ UNCHANGED << codec, request, chat, serviceVars, user, reactVars,
                        initializationAttempted, effectDeps, idleVars >>

\* ------------------------------------------------------------------------
\* clearCrypto, the session and the other devices
\* ------------------------------------------------------------------------

\* CryptoService.clearKeys.
clearKeys ==
    /\ sharedKeys' = [u \in Users |-> 0]
    /\ keyPair' = NoKeyPair

\* The awaits of deriveSharedKey.
DerivePcs == {"importKey", "deriveBits", "importAes"}

\* clearCrypto called through the context value.  An initialization and a
\* key derivation in flight note that the keys were cleared under them.
clearCrypto ==
    /\ Quiet /\ Active
    /\ clearKeys
    /\ isInitialized' = FALSE
    /\ publicKey' = <<>>
    /\ error' = ""
    /\ initializationAttempted' = FALSE
    /\ tasks' = [t \in TaskIds |->
           IF tasks[t].op = "init" \/ tasks[t].pc \in DerivePcs
           THEN [tasks[t] EXCEPT !.cleared = TRUE]
           ELSE tasks[t]]
    /\ UNCHANGED << codec, request, chat, user, isLoading, effectDeps, idleVars >>

\* The promise of a settled call resolves: its caller takes the result.
TakeResult(t) ==
    /\ tasks[t].pc = "done"
    /\ Put(t, IdleTask)
    /\ UNCHANGED << codec, request, chat, serviceVars, user, reactVars,
                    initializationAttempted, effectDeps, idleVars >>

\* Login, logout or a change of account: state.user.userDetails changes.
SetUser(u) ==
    /\ Quiet /\ Active
    /\ u # user
    /\ user' = u
    /\ IF u = "" THEN logins' = logins
       ELSE logins < MaxLogins /\ logins' = logins + 1
    /\ UNCHANGED << codec, request, chat,
                    serviceVars, reactVars, initializationAttempted,
                    effectDeps, localStorage, directory, remoteKey, nextKey,
                    peerKeys, calls, tasks >>

\* Another device of user u generates a key pair and publishes its public
\* key (updatePublicKey on the backend).
RemotePublish(u) ==
    LET scalar == PrivateScalars[MaxKeys + peerKeys + 1]
        response == updatePublicKey(directory, u,
                                    ExportedKeys[MaxKeys + peerKeys + 1])
    IN  /\ Quiet /\ Active
        /\ peerKeys < MaxKeys
        /\ peerKeys' = peerKeys + 1
        /\ remoteKey' = [remoteKey EXCEPT ![u] = scalar]
        /\ directory' = response.dir
        /\ UNCHANGED << codec, request, chat, serviceVars, user, reactVars,
                        initializationAttempted, effectDeps, localStorage,
                        nextKey, logins, tasks, calls >>

Next ==
    \/ \E t \in TaskIds : TakeResult(t)
    \/ AutoInitialize
    \/ \E u \in Accounts \cup {""} : SetUser(u)
    \/ \E f \in BOOLEAN : CallInitializeCrypto(f)
    \/ \E t \in TaskIds : LoadPrivateKeyImported(t)
    \/ \E t \in TaskIds : OwnKeyFetched(t)
    \/ \E t \in TaskIds : KeyGenerated(t)
    \/ \E t \in TaskIds : PublicKeyExported(t)
    \/ \E t \in TaskIds : PublicKeyPut(t)
    \/ \E t \in TaskIds : PrivateKeyExported(t)
    \/ \E p \in Plaintexts, u \in Users \ {user} : CallEncryptMessage(p, u)
    \/ \E u \in Users \ {user} : CallDecryptMessage(u)
    \/ \E t \in TaskIds : PeerKeyFetched(t)
    \/ \E t \in TaskIds : PeerKeyImported(t)
    \/ \E t \in TaskIds : SecretDerived(t)
    \/ \E t \in TaskIds : SharedKeyImported(t)
    \/ \E t \in TaskIds : MessageCiphered(t)
    \/ clearCrypto
    \/ \E u \in Users \ Accounts : RemotePublish(u)

Spec == Init /\ [][Next]_vars

\* ------------------------------------------------------------------------
\* The codec on its own: encryptMessage, an envelope altered on its way,
\* decryptMessage
\* ------------------------------------------------------------------------

\* Characters of an envelope altered on its way.
MaxAlter == 1

CodecPlaintexts == { << 72 >>, << 233 >>, << 72, 233 >>, << 8364, 33 >> }

\* The AES keys of two pairs of identities.
CodecKeys ==
    { DerivedKey(exportPublicKey(PublicPoint(PrivateScalars[3])),
                 PrivateScalars[a]) : a \in 1..2 }

EnvelopeFields == {"ciphertext", "iv", "authTag"}

systemVars ==
    << serviceVars, user, reactVars, initializationAttempted, effectDeps,
       envVars, tasks, request, chat, calls >>

\* The text with its i-th character replaced by another base64 digit.
AlterDigit(text, i, delta) == [text EXCEPT ![i] = (@ + delta) % 64]

\* encryptMessage(plaintext, sharedKey) with the IV drawn by getRandomValues.
CodecEncrypt(plaintext, sharedKey, iv) ==
    /\ codec.pc = "idle"
    /\ codec' = [codec EXCEPT
                     !.pc = "sealed", !.text = plaintext, !.sealKey = sharedKey,
                     !.sealed = encryptMessage(plaintext, sharedKey, iv),
                     !.env = encryptMessage(plaintext, sharedKey, iv),
                     !.drawn = iv]
    /\ UNCHANGED systemVars

\* One character of one field of the envelope is changed on the way.
CodecAlter(field, i, delta) ==
    /\ codec.pc = "sealed"
    /\ codec.altered < MaxAlter
    /\ i \in 1..Len(codec.env[field])
    /\ codec.env[field][i] < 64
    /\ codec' = [codec EXCEPT
                     !.altered = @ + 1,
                     !.env = [@ EXCEPT ![field] = AlterDigit(@, i, delta)]]
    /\ UNCHANGED systemVars

\* The ciphertext and the tag are split at another place on the way: shift
\* bytes move from the front of the tag to the end of the ciphertext (from
\* the end of the ciphertext to the front of the tag when shift is negative).
CodecResplit(shift) ==
    LET ct == base64ToArrayBuffer(codec.env.ciphertext)
        tag == base64ToArrayBuffer(codec.env.authTag)
        combined == ct.bytes \o tag.bytes
        cut == Len(ct.bytes) + shift
    IN  /\ codec.pc = "sealed"
        /\ codec.altered < MaxAlter
        /\ ct.ok /\ tag.ok
        /\ cut >= 0 /\ cut <= Len(combined)
        /\ codec' = [codec EXCEPT
                         !.altered = @ + 1,
                         !.env.ciphertext =
                             arrayBufferToBase64(SubSeq(combined, 1, cut)),
                         !.env.authTag =
                             arrayBufferToBase64(
                                 SubSeq(combined, cut + 1, Len(combined)))]
        /\ UNCHANGED systemVars

\* decryptMessage(encryptedData, sharedKey) on the envelope that arrived.
CodecDecrypt(sharedKey) ==
    /\ codec.pc = "sealed"
    /\ codec' = [codec EXCEPT !.pc = "opened", !.openKey = sharedKey,
                              !.result = decryptMessage(codec.env, sharedKey)]
    /\ UNCHANGED systemVars

\* The envelope has been handled; the next message is encrypted.
CodecReset ==
    /\ codec.pc = "opened"
    /\ codec' = [NoCodec EXCEPT
                     !.previous = [key |-> codec.sealKey, drawn |-> codec.drawn,
                                   iv |-> codec.sealed.iv]]
    /\ UNCHANGED systemVars

CodecNext ==
    \/ \E p \in CodecPlaintexts, k \in CodecKeys, iv \in IvChoices :
           CodecEncrypt(p, k, iv)
    \/ \E f \in EnvelopeFields, i \in 1..24, d \in {1, 32} :
           CodecAlter(f, i, d)
    \/ \E shift \in {-1, 1, 4} : CodecResplit(shift)
    \/ \E k \in CodecKeys : CodecDecrypt(k)
    \/ CodecReset

CodecSpec == Init /\ [][CodecNext]_vars

\* The bytes the three fields of an envelope stand for.
EnvelopeBytes(envelope) ==
    [f \in EnvelopeFields |-> base64ToArrayBuffer(envelope[f])]

\* The bytes decryptMessage hands to subtle.decrypt: the IV, and the
\* ciphertext bytes followed by the tag bytes.
CipherInput(envelope) ==
    LET b == EnvelopeBytes(envelope)
    IN  [ok |-> b.ciphertext.ok /\ b.iv.ok /\ b.authTag.ok,
         iv |-> b.iv.bytes,
         data |-> b.ciphertext.bytes \o b.authTag.bytes]

PeerOps == {"encrypt", "decrypt"}

\* C1: for identities A (this browser) and B (the peer's device) whose
\* published public keys belong to the private keys they hold, the envelope
\* A's encryptForUser(P, pubB, B) returns is decrypted by B, with the key B
\* derives from (privB, pubA), to exactly P.
C1_RoundTrip ==
    \A t \in TaskIds :
        LET rec == tasks[t]
        IN  ( /\ rec.pc = "done" /\ rec.op = "encrypt"
              /\ rec.ret = "envelope"
              /\ user # ""
              /\ remoteKey[rec.id] # 0
              /\ keyPair.privateKey = rec.mine
              /\ importPublicKey(directory[user]).point = PublicPoint(rec.mine)
              /\ rec.peer = PublicPoint(remoteKey[rec.id]) )
            => decryptMessage(rec.env,
                              DerivedKey(directory[user], remoteKey[rec.id]))
                   = [ok |-> TRUE, text |-> rec.text]

\* C3: of the encrypt/decrypt calls for one peer that were started with no
\* key cached for that peer and are in flight together, only one fetches
\* the peer's public key and only one runs the ECDH derivation.
C3_SingleFlight ==
    \A s, t \in TaskIds :
        ( /\ s # t
          /\ InFlight(s) /\ InFlight(t)
          /\ tasks[s].op \in PeerOps /\ tasks[t].op \in PeerOps
          /\ tasks[s].id = tasks[t].id
          /\ tasks[s].miss /\ tasks[t].miss )
        => /\ ~(tasks[s].fetched /\ tasks[t].fetched)
           /\ ~(tasks[s].derived /\ tasks[t].derived)

\* C4: of the initializeCrypto calls in flight together only one runs the
\* load-or-generate sequence: at most one generates a key pair, at most
\* one publishes a public key, at most one persists a private key.
C4_SingleInitialization ==
    \A s, t \in TaskIds :
        ( /\ s # t
          /\ tasks[s].op = "init" /\ tasks[t].op = "init"
          /\ tasks[s].pc # "idle" /\ tasks[t].pc # "idle" )
        => /\ ~(tasks[s].generated /\ tasks[t].generated)
           /\ ~(tasks[s].published /\ tasks[t].published)
           /\ ~(tasks[s].persisted /\ tasks[t].persisted)

\* C5: whenever the identity key pair held by the service is replaced by
\* another one, all the shared keys cached before are removed, so that every
\* cached key was derived from the private key currently held.
C5_CacheFollowsKeyPair ==
    [][ ( /\ keyPair.privateKey # 0
          /\ keyPair'.privateKey # 0
          /\ keyPair'.privateKey # keyPair.privateKey )
        => sharedKeys' = [u \in Users |-> 0] ]_vars

\* C6: a deriveSharedKey call that was suspended at an await when clearKeys
\* ran never inserts its result into sharedKeys when it goes on.
C6_NoInsertAfterClear ==
    [][ \A t \in TaskIds :
            ( /\ tasks[t].op \in PeerOps
              /\ tasks[t].cleared
              /\ tasks[t].pc = "importAes"
              /\ tasks'[t].pc # "importAes" )
            => sharedKeys' = sharedKeys ]_vars

\* C7: whenever the provider reports isInitialized the service holds an
\* identity key pair; an initializeCrypto call in flight when clearCrypto ran
\* never sets isInitialized again.
C7_ReadyHoldsKeyPair ==
    isInitialized => keyPair.privateKey # 0

\* C8: a service method that needs the identity key pair and is called
\* after clearKeys, with no key pair held, fails with the not-initialized
\* error.
C8_ClearedOperationsFail ==
    \A t \in TaskIds :
        tasks[t].nullCall # "" => tasks[t].nullErr = "Crypto not initialized"

\* C9: the provider's decryptMessage never throws: a call that has settled
\* returned the decrypted text or the decryption-failed placeholder.
C9_DecryptNeverThrows ==
    \A t \in TaskIds :
        (tasks[t].pc = "done" /\ tasks[t].op = "decrypt")
        => /\ tasks[t].err = ""
           /\ tasks[t].ret \in {"text", DecryptionFailed}

\* C10: an initializeCrypto call for a logged-in user that returned false
\* leaves the engine uninitialized: isInitialized is false and the service
\* holds no identity key pair.
C10_FailedInitLeavesNothing ==
    \A t \in TaskIds :
        ( /\ tasks[t].pc = "done" /\ tasks[t].op = "init"
          /\ tasks[t].id # "" /\ tasks[t].ret = "false" )
        => ~isInitialized /\ keyPair = NoKeyPair

\* C11: once a private key saved under the owner's identifier has been
\* loaded again, both halves of the key pair are held (so that
\* exportPublicKey can export the public key published before the save).
C11_ReloadRestoresKeyPair ==
    ( /\ user # ""
      /\ keyPair.privateKey # 0
      /\ ImportPkcs8(base64ToArrayBuffer(localStorage[user]).bytes)
             = [ok |-> TRUE, scalar |-> keyPair.privateKey] )
    => keyPair.publicKey = PublicPoint(keyPair.privateKey)

\* C12: the key deriveSharedKey hands to encryptMessage or decryptMessage is
\* the ECDH key of the private key held when it was called and of the peer
\* public key supplied to it, also when the peer has published a new key.
C12_KeyFollowsSuppliedKey ==
    \A t \in TaskIds :
        LET rec == tasks[t]
        IN  ( /\ rec.op \in PeerOps /\ rec.pc = "cipher"
              /\ rec.peer # 0
              /\ keyPair.privateKey = rec.mine )
            => rec.key = ImportAesKey(DeriveBits(rec.peer, rec.mine)).key

\* C14: decryptMessage returns a plaintext only for an envelope whose IV is
\* exactly 12 bytes and whose authTag is exactly 16 bytes; every other
\* envelope is rejected.
C14_MalformedRejected ==
    (codec.pc = "opened" /\ codec.result.ok) =>
        /\ Len(EnvelopeBytes(codec.env).iv.bytes) = IvLen
        /\ Len(EnvelopeBytes(codec.env).authTag.bytes) = TagLen

\* C13: an encrypt or decrypt call made while sharedKeys holds an entry for
\* the peer fetches no public key from the directory and runs no key import
\* or ECDH derivation.
C13_CacheHitTouchesNothing ==
    \A t \in TaskIds :
        (tasks[t].op \in PeerOps /\ InFlight(t) /\ ~tasks[t].miss)
        => ~tasks[t].fetched /\ ~tasks[t].derived

\* C15: the peer-not-encryption-ready error is surfaced to the caller of
\* encryptMessage only when the directory answers 'not found' (404) for the
\* peer; any other failure of the fetch is propagated as a different error.
C15_NotFoundDistinct ==
    \A t \in TaskIds :
        ( /\ tasks[t].op = "encrypt" /\ tasks[t].pc = "done"
          /\ tasks[t].err = PeerNotReady )
        => ~tasks[t].transport

\* ------------------------------------------------------------------------
\* ChatPage.handleSend
\* ------------------------------------------------------------------------

\* The text field of an encrypted payload: '[Encrypted]'.
EncryptedText == << 91, 69, 110, 99, 114, 121, 112, 116, 101, 100, 93 >>

\* The payload handleSend dispatches for the typed text once its
\* encryptMessage call has settled: the envelope with the placeholder text,
\* or, when the call threw (handleSend's inner catch), the typed text with
\* isEncrypted false.  With isCryptoInitialized false handleSend does not
\* make the call and builds the same unencrypted payload.
messagePayload(rec) ==
    IF rec.err = ""
    THEN [text |-> EncryptedText, encryptedData |-> rec.env.ciphertext,
          iv |-> rec.env.iv, authTag |-> rec.env.authTag,
          isEncrypted |-> TRUE]
    ELSE [text |-> rec.text, encryptedData |-> <<>>, iv |-> <<>>,
          authTag |-> <<>>, isEncrypted |-> FALSE]

\* C16: every payload handleSend dispatches for a contact (here: with the
\* provider initialized, so that encryptMessage was called) carries
\* isEncrypted = true with ciphertext, iv and authTag, and its text is the
\* '[Encrypted]' placeholder, never the typed plaintext.
C16_PayloadEncrypted ==
    \A t \in TaskIds :
        ( /\ tasks[t].op = "encrypt" /\ tasks[t].pc = "done"
          /\ tasks[t].fetched ) =>
            LET payload == messagePayload(tasks[t])
            IN  /\ payload.isEncrypted
                /\ payload.text = EncryptedText
                /\ payload.text # tasks[t].text
                /\ Len(payload.encryptedData) > 0
                /\ Len(payload.iv) > 0 /\ Len(payload.authTag) > 0

\* ------------------------------------------------------------------------
\* The IV of successive envelopes (CodecSpec)
\* ------------------------------------------------------------------------

\* An envelope has been produced after another one under the same key.
SealedAgain ==
    /\ codec.pc = "sealed"
    /\ codec.previous # NoPrevious
    /\ codec.previous.key = codec.sealKey

\* C17 (as what the code ensures): the iv field of an envelope is the base64
\* text of exactly the 12 bytes getRandomValues returned to that
\* encryptMessage call, so two envelopes produced under the same key carry
\* the same IV only when getRandomValues returned the same bytes to both
\* calls.
C17_IvIsTheDrawnValue ==
    codec.pc = "sealed" =>
        /\ base64ToArrayBuffer(codec.sealed.iv) = [ok |-> TRUE, bytes |-> codec.drawn]
        /\ Len(codec.drawn) = IvLen
        /\ (SealedAgain /\ codec.sealed.iv = codec.previous.iv)
               => codec.drawn = codec.previous.drawn

\* Two envelopes were produced under the same key with different values
\* drawn, and they carry different IVs.
C17_Witness ==
    /\ SealedAgain
    /\ codec.drawn # codec.previous.drawn
    /\ codec.sealed.iv # codec.previous.iv

\* C17 as stated: no two envelopes produced under the same shared key carry
\* the same IV.
C17_NoIvReuse ==
    SealedAgain => codec.sealed.iv # codec.previous.iv

\* ------------------------------------------------------------------------
\* The key directory on its own: PUT /public-key and GET /:id/public-key
\* ------------------------------------------------------------------------

\* A user whose token is still valid and whose record no longer exists.
DeletedUser == "u0"

\* The token a request carries: "" is no valid token.
Tokens == Users \cup {"", DeletedUser}

\* Key texts a request body may carry: two exported P-256 keys, 33 bytes (a
\* compressed point), a key text that atob and Buffer.from decode to the
\* bytes of the first key without being its text, three bytes, and no key.
CompressedKey == arrayBufferToBase64([i \in 1..33 |-> IF i = 1 THEN 2 ELSE i])

RespelledKey == AlterDigit(ExportedKeys[1], 87, 1)

ShortKey == arrayBufferToBase64(<< 1, 2, 3 >>)

DirectoryKeys ==
    { ExportedKeys[1], ExportedKeys[2], CompressedKey, RespelledKey, ShortKey,
      <<>> }

directoryFrame == << serviceVars, user, reactVars, initializationAttempted,
                     effectDeps, localStorage, remoteKey, nextKey, peerKeys,
                     logins, tasks, codec, chat, calls >>

\* PUT /public-key with the token of auth and the body { publicKey }; the body
\* may name a user (bodyId), which the controller does not read.  dbFails:
\* findByIdAndUpdate rejects and the catch answers 500.
DirUpdate(auth, bodyId, key, dbFails) ==
    LET response == updatePublicKey(directory, auth, key)
        status == IF dbFails /\ response.status \in {200, 404} THEN 500
                  ELSE response.status
    IN  /\ directory' = IF status = 500 THEN directory ELSE response.dir
        /\ request' = [op |-> "update", auth |-> auth, id |-> bodyId,
                       publicKey |-> key, status |-> status, answer |-> <<>>,
                       before |-> directory,
                       acked |-> IF status = 200
                                 THEN [request.acked EXCEPT ![auth] = key]
                                 ELSE request.acked]
        /\ UNCHANGED directoryFrame

\* GET /:id/public-key with the token of auth.
DirGet(auth, id) ==
    LET response == getPublicKey(directory, id)
    IN  /\ request' = [op |-> "get", auth |-> auth, id |-> id,
                       publicKey |-> <<>>,
                       status |-> IF auth = "" THEN 401 ELSE response.status,
                       answer |-> IF auth = "" THEN <<>>
                                  ELSE response.publicKey,
                       before |-> directory, acked |-> request.acked]
        /\ UNCHANGED << directory, directoryFrame >>

DirectoryNext ==
    \/ \E auth \in Tokens, bodyId \in Users, key \in DirectoryKeys,
          dbFails \in BOOLEAN :
           DirUpdate(auth, bodyId, key, dbFails)
    \/ \E auth \in Tokens, id \in Users \cup {DeletedUser} : DirGet(auth, id)

DirectorySpec == Init /\ [][DirectoryNext]_vars

\* C18: after updatePublicKey answered 200 to user u for the key k,
\* getPublicKey(u) answers k, the text that was published, until u publishes
\* again; a publish of the key the directory already holds for u leaves the
\* directory as it was.
C18_IdempotentUpsert ==
    /\ \A u \in Users :
           Len(request.acked[u]) > 0 =>
               getPublicKey(directory, u) =
                   [status |-> 200, publicKey |-> request.acked[u]]
    /\ ( /\ request.op = "get" /\ request.auth # ""
         /\ request.id \in Users
         /\ Len(request.acked[request.id]) > 0 ) =>
           /\ request.status = 200
           /\ request.answer = request.acked[request.id]
    /\ ( /\ request.op = "update" /\ request.status = 200
         /\ request.before[request.auth] = request.publicKey ) =>
           directory = request.before

\* A user has published once more the key the directory already held for
\* them, a key text that is not the one exportPublicKey writes.
C18_Witness ==
    /\ request.op = "update" /\ request.status = 200
    /\ request.before[request.auth] = request.publicKey
    /\ request.publicKey = RespelledKey
    /\ getPublicKey(directory, request.auth).publicKey = RespelledKey

\* C19: a request changes the key of a user only when it is an updatePublicKey
\* request with that user's token that was answered 200, and then to the key
\* of its body; every other user's key, and every key after a request that
\* was rejected, is what it was before the request.
C19_OnlyOwnRecord ==
    /\ \A v \in Users :
           directory[v] # request.before[v] =>
               /\ request.op = "update" /\ request.status = 200
               /\ request.auth = v
               /\ directory[v] = request.publicKey
    /\ request.status # 200 => directory = request.before

\* A user replaced their own key with a request whose body names another
\* user, who has a key, and that key is what it was.
C19_Witness ==
    /\ request.op = "update" /\ request.status = 200
    /\ request.id # request.auth
    /\ directory[request.auth] # request.before[request.auth]
    /\ Len(request.before[request.auth]) > 0
    /\ Len(directory[request.id]) > 0
    /\ directory[request.id] = request.before[request.id]

\* ------------------------------------------------------------------------
\* Persisting the private key
\* ------------------------------------------------------------------------

\* C20: an initializeCrypto that generated a key pair returns true, with the
\* engine set Ready, only when localStorage holds, under the user's id, the
\* private key of the pair whose public key it published.
C20_ReadyOnlyWhenStored ==
    \A t \in TaskIds :
        LET rec == tasks[t]
        IN  ( /\ rec.op = "init" /\ rec.pc = "done" /\ rec.ret = "true"
              /\ rec.generated /\ rec.published )
            => /\ rec.persisted
               /\ ImportPkcs8(base64ToArrayBuffer(localStorage[rec.id]).bytes)
                      = [ok |-> TRUE, scalar |-> keyPair.privateKey]

\* ------------------------------------------------------------------------
\* One browser and what happens to its storage and to its user's directory
\* entry: a damaged entry, another device of the same user (DeviceSpec)
\* ------------------------------------------------------------------------

\* Texts a damaged privateKey_<id> entry may hold: three bytes that are no
\* PKCS#8 key (importKey rejects them) and a single character (atob throws).
DamagedEntries == { ShortKey, << 12 >> }

\* The entry stored for a user is damaged by something other than this code
\* (the entry is a plain localStorage string of the origin).
StorageDamaged(u, text) ==
    /\ Quiet /\ Active
    /\ Len(localStorage[u]) > 0
    /\ localStorage[u] # text
    /\ localStorage' = [localStorage EXCEPT ![u] = text]
    /\ UNCHANGED << codec, request, chat, serviceVars, user, reactVars,
                    initializationAttempted, effectDeps, directory, remoteKey,
                    nextKey, peerKeys, logins, tasks, calls >>

DeviceNext ==
    \/ \E t \in TaskIds : TakeResult(t)
    \/ AutoInitialize
    \/ \E u \in Accounts \cup {""} : SetUser(u)
    \/ \E f \in BOOLEAN : CallInitializeCrypto(f)
    \/ \E t \in TaskIds : LoadPrivateKeyImported(t)
    \/ \E t \in TaskIds : OwnKeyFetched(t)
    \/ \E t \in TaskIds : KeyGenerated(t)
    \/ \E t \in TaskIds : PublicKeyExported(t)
    \/ \E t \in TaskIds : PublicKeyPut(t)
    \/ \E t \in TaskIds : PrivateKeyExported(t)
    \/ clearCrypto
    \/ \E u \in Accounts, text \in DamagedEntries : StorageDamaged(u, text)
    \/ \E u \in Accounts : RemotePublish(u)

DeviceSpec == Init /\ [][DeviceNext]_vars

\* C21: an initialization whose loadPrivateKey found an entry that it could
\* not decode or import ends with an error; it is not continued as if no
\* entry were stored.
C21_FailedLoadIsAnError ==
    \A t \in TaskIds :
        (tasks[t].op = "init" /\ tasks[t].load = "failed")
        => tasks[t].pc = "done" /\ tasks[t].ret = "false"

\* ------------------------------------------------------------------------
\* The order of the generation path
\* ------------------------------------------------------------------------

\* C22: an initializeCrypto whose loadPrivateKey found no entry returns true,
\* with the engine set Ready, only when it generated a key pair, then had
\* its public key stored by the directory, then persisted the private key;
\* when the publication failed it persisted nothing and returned false.
C22_GenerateThenPublishThenPersist ==
    \A t \in TaskIds :
        LET rec == tasks[t]
        IN  (rec.op = "init" /\ rec.pc = "done" /\ rec.load = "absent") =>
                /\ rec.ret = "true" =>
                       rec.generated /\ rec.published /\ rec.persisted
                /\ rec.persisted => rec.published
                /\ rec.published => rec.generated
                /\ ~rec.published => rec.ret = "false"

\* ------------------------------------------------------------------------
\* Peers that publish keys this browser cannot import (DeriveSpec)
\* ------------------------------------------------------------------------

\* A peer publishes a key text the backend accepts (33 bytes) and
\* importKey('raw', ..., P-256) rejects.
PeerPublishes(u, text) ==
    LET response == updatePublicKey(directory, u, text)
    IN  /\ Quiet /\ Active
        /\ directory[u] # text
        /\ response.status = 200
        /\ directory' = response.dir
        /\ remoteKey' = [remoteKey EXCEPT ![u] = 0]
        /\ UNCHANGED << codec, request, chat, serviceVars, user, reactVars,
                        initializationAttempted, effectDeps, localStorage,
                        nextKey, peerKeys, logins, tasks, calls >>

DeriveNext ==
    \/ \E t \in TaskIds : TakeResult(t)
    \/ AutoInitialize
    \/ \E u \in Accounts \cup {""} : SetUser(u)
    \/ \E t \in TaskIds : LoadPrivateKeyImported(t)
    \/ \E t \in TaskIds : OwnKeyFetched(t)
    \/ \E t \in TaskIds : KeyGenerated(t)
    \/ \E t \in TaskIds : PublicKeyExported(t)
    \/ \E t \in TaskIds : PublicKeyPut(t)
    \/ \E t \in TaskIds : PrivateKeyExported(t)
    \/ \E p \in Plaintexts, u \in Users \ {user} : CallEncryptMessage(p, u)
    \/ \E u \in Users \ {user} : CallDecryptMessage(u)
    \/ \E t \in TaskIds : PeerKeyFetched(t)
    \/ \E t \in TaskIds : PeerKeyImported(t)
    \/ \E t \in TaskIds : SecretDerived(t)
    \/ \E t \in TaskIds : SharedKeyImported(t)
    \/ \E t \in TaskIds : MessageCiphered(t)
    \/ clearCrypto
    \/ \E u \in Users \ Accounts : RemotePublish(u)
    \/ \E u \in Users \ Accounts : PeerPublishes(u, CompressedKey)

DeriveSpec == Init /\ [][DeriveNext]_vars

\* The errors with which deriveSharedKey fails: atob or importKey rejects the
\* peer's key, the key pair is gone when deriveBits is called.
DeriveErrors == {"InvalidCharacterError", "DataError", "TypeError"}

\* C23: a step in which deriveSharedKey fails leaves sharedKeys as it was;
\* sharedKeys changes only when clearKeys empties it or when a derivation
\* has imported its AES key, and then only in the entry of that call's peer.
C23_FailedDerivationKeepsCache ==
    [][ /\ \A t \in TaskIds :
               ( /\ tasks[t].op \in PeerOps
                 /\ tasks[t].pc \in {"fetchKey", "importKey", "deriveBits"}
                 /\ tasks'[t].pc = "done"
                 /\ \/ tasks'[t].err \in DeriveErrors
                    \/ tasks'[t].ret = DecryptionFailed )
               => sharedKeys' = sharedKeys
        /\ sharedKeys' # sharedKeys =>
               \/ sharedKeys' = [u \in Users |-> 0]
               \/ \E t \in TaskIds :
                      /\ tasks[t].pc = "importAes"
                      /\ sharedKeys' =
                             [sharedKeys EXCEPT
                                 ![tasks[t].id] = ImportAesKey(tasks[t].data).key]
      ]_vars

\* A derivation failed on the peer's key while the cache held a key for that
\* peer, put there by another call.
C23_Witness ==
    \E t \in TaskIds :
        /\ tasks[t].op = "encrypt" /\ tasks[t].pc = "done"
        /\ tasks[t].miss /\ ~tasks[t].derived
        /\ tasks[t].err = "DataError"
        /\ sharedKeys[tasks[t].id] # 0

\* ------------------------------------------------------------------------
\* The key pair in memory and the key published for the user
\* ------------------------------------------------------------------------

\* C24: whenever the engine is Ready for the logged-in user and holds a
\* private key, that key is the one whose public key the directory holds
\* for that user.
C24_ReadyKeyIsPublishedKey ==
    (isInitialized /\ user # "" /\ keyPair.privateKey # 0) =>
        importPublicKey(directory[user]) =
            [ok |-> TRUE, point |-> PublicPoint(keyPair.privateKey)]

\* ------------------------------------------------------------------------
\* ChatPage: the messages of the active conversation
\* ------------------------------------------------------------------------
\* The page of the local user ChatMe talking to ChatPeer in Conversation.
\* Both have published a key; once the provider reports isInitialized the
\* local engine holds ChatMe's key pair.

ChatMe == "u1"
ChatPeer == "u2"

ChatScalar == [u \in Users |-> IF u = ChatMe THEN PrivateScalars[1]
                                             ELSE PrivateScalars[2]]

ChatKeyOf(u) == exportPublicKey(PublicPoint(ChatScalar[u]))

FacadePlaceholder ==
    << 91, 68, 101, 99, 114, 121, 112, 116, 105, 111, 110, 32, 102, 97,
       105, 108, 101, 100, 58, 32, 77, 101, 115, 115, 97, 103, 101, 32,
       109, 97, 121, 32, 98, 101, 32, 99, 111, 114, 114, 117, 112, 116,
       101, 100, 93 >>

PagePlaceholder ==
    << 91, 68, 101, 99, 114, 121, 112, 116, 105, 111, 110, 32, 102, 97,
       105, 108, 101, 100, 93 >>

OldFormatPlaceholder ==
    << 91, 67, 97, 110, 110, 111, 116, 32, 100, 101, 99, 114, 121, 112,
       116, 58, 32, 79, 108, 100, 32, 109, 101, 115, 115, 97, 103, 101,
       32, 102, 111, 114, 109, 97, 116, 93 >>

DecryptingText ==
    << 68, 101, 99, 114, 121, 112, 116, 105, 110, 103, 46, 46, 46 >>

chatFrame ==
    << serviceVars, user, reactVars, initializationAttempted, effectDeps,
       envVars, tasks, request, codec, calls >>

EnvelopeOf(msg) ==
    [ciphertext |-> msg.encryptedData, iv |-> msg.iv, authTag |-> msg.authTag]

\* CryptoProvider.decryptMessage(envelope, senderId) of the initialized
\* engine of `me`: the sender's key is fetched (no user of that id: the
\* request fails), the shared key derived and the envelope opened; every
\* failure is answered with the placeholder text.
providerDecrypt(me, envelope, senderId) ==
    IF senderId \notin Users THEN FacadePlaceholder
    ELSE LET opened == decryptMessage(envelope,
                           DerivedKey(ChatKeyOf(senderId), ChatScalar[me]))
         IN  IF opened.ok THEN opened.text ELSE FacadePlaceholder

\* What a try { await decryptMessage(...) } catch of the page yields: the
\* provider throws only when it is not initialized.
pageDecrypt(envelope, senderId) ==
    IF chat.isCryptoInitialized
    THEN providerDecrypt(ChatMe, envelope, senderId)
    ELSE PagePlaceholder

\* The payload handleSend of `sender` dispatches for the typed text: the
\* envelope under the key shared with the receiver, or the plain text.
sendPayload(sender, receiver, text, encrypted, iv) ==
    LET envelope == encryptMessage(text,
                        DerivedKey(ChatKeyOf(receiver), ChatScalar[sender]), iv)
    IN  IF encrypted
        THEN [NoMessage EXCEPT !.conversationId = Conversation,
                               !.text = EncryptedText,
                               !.encryptedData = envelope.ciphertext,
                               !.iv = envelope.iv, !.authTag = envelope.authTag,
                               !.isEncrypted = TRUE]
        ELSE [NoMessage EXCEPT !.conversationId = Conversation, !.text = text]

\* The chat slice: fetchMessages.fulfilled stores the list of the answer,
\* addMessage and sendMessage.fulfilled append the message.
fetchMessagesFulfilled(messages, payload) == payload

addMessage(messages, msg) == Append(messages, msg)

sendMessageFulfilled(messages, payload) == Append(messages, payload)

\* The socket server on 'sendMessage': the message is passed on verbatim as
\* 'newMessage' to the other sockets of the room.
relaySendMessage(message) == message

Joined == chat.activeId = Conversation

\* The page has rendered since the last change of processedMessageIds, so
\* that handleNewMessage is subscribed with the current set.  Only another
\* 'newMessage' event is taken before that render.
Rendered == chat.handlerIds = chat.processedMessageIds

TypedText == CHOOSE text \in Plaintexts : TRUE

PostKinds == {"good", "bad"}

\* The provider reports isInitialized.
CryptoBecomesReady ==
    /\ Rendered
    /\ ~chat.isCryptoInitialized
    /\ chat' = [chat EXCEPT !.isCryptoInitialized = TRUE, !.passDue = TRUE]
    /\ UNCHANGED chatFrame

\* handleContactClick(Conversation): setActiveId, setSelectedContact and
\* setDecryptedMessages({}).  Only a changed activeId runs the effect that
\* fetches and gives the decrypt effect a new activeContact.  The contact
\* that is active already is clicked again while no decryption is awaited.
handleContactClick ==
    /\ Rendered
    /\ chat' = [chat EXCEPT
                    !.activeId = Conversation,
                    !.decryptedMessages = [i \in MessageIds |-> <<>>],
                    !.fetchDue = chat.fetchDue \/ chat.activeId # Conversation,
                    !.passDue = chat.passDue \/ chat.activeId # Conversation]
    /\ \/ chat.activeId # Conversation
       \/ /\ chat.decryptedMessages # [i \in MessageIds |-> <<>>]
          /\ chat.pass.pc # "await"
          /\ chat.incoming = {}
    /\ UNCHANGED chatFrame

\* dispatch(fetchMessages(activeId)) answered by getMessages.
MessagesFetched ==
    /\ Rendered
    /\ chat.fetchDue
    /\ LET response == getMessages(chat.db, ChatMe)
       IN  chat' = [chat EXCEPT
                        !.fetchDue = FALSE,
                        !.messages = IF response.status = 200
                                     THEN fetchMessagesFulfilled(chat.messages,
                                                                 response.messages)
                                     ELSE chat.messages,
                        !.passDue = chat.passDue \/ response.status = 200]
    /\ UNCHANGED chatFrame

\* The peer's handleSend up to the answer of postMessage: a message that
\* opens under the shared key, one whose tag was damaged, or a plain one.
PeerPosts(kind, iv) ==
    /\ Rendered
    /\ Len(chat.db) < MaxMessages
    /\ chat.peerSent = NoMessage
    /\ LET sealed == sendPayload(ChatPeer, ChatMe, TypedText, kind # "plain", iv)
           body == IF kind = "bad"
                   THEN [sealed EXCEPT !.authTag = AlterDigit(@, 1, 1)]
                   ELSE sealed
           response == postMessage(chat.db, ChatPeer, body)
       IN  chat' = [chat EXCEPT
                        !.db = response.db,
                        !.peerSent = response.message,
                        !.posts = Append(@, [body |-> body,
                                             answer |-> response.message,
                                             emitted |-> response.emitted]),
                        !.socket = IF Joined THEN Append(@, response.emitted)
                                   ELSE @]
    /\ UNCHANGED chatFrame

\* The peer's handleSend after the answer: socket.emit('sendMessage', ...)
\* with the answer's message, which the server passes on to this page.
PeerEmits ==
    /\ Rendered
    /\ chat.peerSent # NoMessage
    /\ chat' = [chat EXCEPT
                    !.peerSent = NoMessage,
                    !.socket = IF Joined
                               THEN Append(@, relaySendMessage(chat.peerSent))
                               ELSE @]
    /\ UNCHANGED chatFrame

\* handleNewMessage(msg) for the first waiting 'newMessage' event, up to its
\* await.  The handler reads the processedMessageIds of the render it was
\* subscribed in (handlerIds); the state updates are functional.
handleNewMessage ==
    /\ Len(chat.socket) > 0
    /\ LET msg == Head(chat.socket)
           taken == [chat EXCEPT !.socket = Tail(@)]
           marked == [taken EXCEPT !.processedMessageIds = @ \cup {msg.id}]
           stored == [marked EXCEPT
                          !.messages = addMessage(@, msg),
                          !.added[msg.id] = @ + 1,
                          !.passDue = TRUE]
       IN  chat' =
               IF msg.conversationId # chat.activeId THEN taken
               ELSE IF msg.id \in chat.handlerIds THEN taken
               ELSE IF msg.senderId = ChatMe THEN marked
               ELSE IF msg.isEncrypted /\ chat.isCryptoInitialized
               THEN [stored EXCEPT
                         !.decryptCalls = @ \cup
                             {[id |-> msg.id, peer |-> msg.senderId]},
                         !.incoming = @ \cup
                             {[id |-> msg.id,
                               text |-> pageDecrypt(EnvelopeOf(msg),
                                                    msg.senderId)]}]
               ELSE stored
    /\ UNCHANGED chatFrame

\* handleNewMessage after its await: the text or the placeholder is stored.
IncomingDecrypted(x) ==
    /\ Rendered
    /\ x \in chat.incoming
    /\ chat' = [chat EXCEPT !.incoming = @ \ {x},
                            !.decryptedMessages[x.id] = x.text]
    /\ UNCHANGED chatFrame

\* The effect that subscribes handleNewMessage runs again after a render
\* with new processedMessageIds.
Resubscribe ==
    /\ chat.handlerIds # chat.processedMessageIds
    /\ chat' = [chat EXCEPT !.handlerIds = chat.processedMessageIds]
    /\ UNCHANGED chatFrame

\* handleSend up to the answer of postMessage: the text is encrypted when
\* the provider is initialized and sent plain otherwise.
SendStart(iv) ==
    /\ Rendered
    /\ chat.send.pc = "idle"
    /\ Joined
    /\ Len(chat.db) < MaxMessages
    /\ LET typed ==
               [sendPayload(ChatMe, ChatPeer, TypedText,
                            chat.isCryptoInitialized, iv)
                    EXCEPT !.senderId = ChatMe]
           response == postMessage(chat.db, ChatMe, typed)
       IN  chat' = [chat EXCEPT
                        !.db = response.db,
                        !.send = [pc |-> "posted", text |-> TypedText,
                                  payload |-> typed,
                                  response |-> response.message],
                        !.posts = Append(@, [body |-> typed,
                                             answer |-> response.message,
                                             emitted |-> response.emitted]),
                        !.socket = Append(@, response.emitted)]
    /\ UNCHANGED chatFrame

\* handleSend after the answer: sendMessage.fulfilled has stored the
\* message, its id is marked processed and its plaintext cached; the
\* 'sendMessage' emission goes to the other sockets of the room.
SendDone ==
    /\ Rendered
    /\ chat.send.pc = "posted"
    /\ LET payload == chat.send.response
       IN  chat' = [chat EXCEPT
                        !.send = NoSend,
                        !.messages = sendMessageFulfilled(@, payload),
                        !.passDue = TRUE,
                        !.processedMessageIds = @ \cup {payload.id},
                        !.decryptedMessages[payload.id] =
                            IF chat.send.payload.isEncrypted
                            THEN chat.send.text ELSE @]
    /\ UNCHANGED chatFrame

RECURSIVE PassRun(_, _)
\* The loop of decryptMessagesAsync from the i-th message of its list up to
\* the next await of decryptMessage, or to its end: a message that has a
\* text already or is not encrypted keeps it, one without a peer id gets the
\* old-format placeholder.
PassRun(pass, i) ==
    IF i > Len(pass.list) THEN [pass EXCEPT !.pc = "finished", !.at = i - 1]
    ELSE LET msg == pass.list[i]
             otherUserId == IF msg.senderId = "me"
                            THEN IF msg.receiverId # "" THEN msg.receiverId
                                                        ELSE ChatPeer
                            ELSE msg.senderId
         IN  IF pass.seen[msg.id] # <<>> \/ ~msg.isEncrypted
             THEN PassRun([pass EXCEPT !.newDecrypted[msg.id] =
                                           IF pass.seen[msg.id] # <<>>
                                           THEN pass.seen[msg.id]
                                           ELSE msg.text], i + 1)
             ELSE IF otherUserId = ""
             THEN PassRun([pass EXCEPT !.newDecrypted[msg.id] =
                                           OldFormatPlaceholder], i + 1)
             ELSE [pass EXCEPT !.pc = "await", !.at = i, !.peer = otherUserId]

\* A loop that gives up at the first message that fails to decrypt.
PassResumeAborting(pass, text) ==
    LET msg == pass.list[pass.at]
    IN  IF text \in {FacadePlaceholder, PagePlaceholder}
        THEN [pass EXCEPT !.pc = "finished", !.newDecrypted[msg.id] = text]
        ELSE PassRun([pass EXCEPT !.newDecrypted[msg.id] = text], pass.at + 1)

\* The loop after the await for its current message: the text, or the
\* placeholder of the catch, is noted for this message and the loop goes on.
PassResume(pass, text) ==
    LET msg == pass.list[pass.at]
    IN  PassRun([pass EXCEPT !.newDecrypted[msg.id] = text], pass.at + 1)

\* The page once the loop has stopped: at an await the call is made, at the
\* end setDecryptedMessages(prev => ({...prev, ...newDecrypted})).
PassLanded(page, pass) ==
    IF pass.pc = "finished"
    THEN [page EXCEPT
              !.pass = pass,
              !.decryptedMessages =
                  [i \in MessageIds |-> IF pass.newDecrypted[i] # <<>>
                                        THEN pass.newDecrypted[i] ELSE @[i]]]
    ELSE [page EXCEPT
              !.pass = pass,
              !.decryptCalls = @ \cup {[id |-> pass.list[pass.at].id,
                                        peer |-> pass.peer]}]

\* The decrypt effect runs: messages, isCryptoInitialized or activeContact
\* have changed.  It returns at once without messages, provider or contact.
DecryptPassStarts ==
    /\ Rendered
    /\ chat.passDue
    /\ chat.pass.pc # "await"
    /\ LET page == [chat EXCEPT !.passDue = FALSE]
       IN  chat' =
               IF \/ Len(chat.messages) = 0
                  \/ ~chat.isCryptoInitialized
                  \/ chat.activeId = ""
               THEN page
               ELSE PassLanded(page,
                        PassRun([NoPass EXCEPT
                                     !.list = chat.messages,
                                     !.seen = chat.decryptedMessages], 1))
    /\ UNCHANGED chatFrame

\* decryptMessage has answered for the current message of the loop.
DecryptPassStep ==
    /\ Rendered
    /\ chat.pass.pc = "await"
    /\ LET msg == chat.pass.list[chat.pass.at]
       IN  chat' = PassLanded(chat,
                       PassResume(chat.pass,
                                  pageDecrypt(EnvelopeOf(msg), chat.pass.peer)))
    /\ UNCHANGED chatFrame

ChatNext ==
    \/ CryptoBecomesReady
    \/ handleContactClick
    \/ MessagesFetched
    \/ \E kind \in PostKinds : PeerPosts(kind, CHOOSE iv \in IvChoices : TRUE)
    \/ PeerEmits
    \/ handleNewMessage
    \/ \E x \in chat.incoming : IncomingDecrypted(x)
    \/ Resubscribe
    \/ SendStart(CHOOSE iv \in IvChoices : TRUE)
    \/ SendDone
    \/ DecryptPassStarts
    \/ DecryptPassStep

ChatSpec == Init /\ [][ChatNext]_vars

\* C25: the peer id passed to decryptMessage for a message is the id of the
\* other participant of the conversation (the receiver of a message the
\* local user sent, the sender of one they received), both in the decrypt
\* pass over the fetched messages and for a 'newMessage' event.
C25_PeerIsOtherParticipant ==
    \A call \in chat.decryptCalls :
        LET stored == chat.db[call.id]
        IN  call.peer = IF stored.senderId = ChatMe THEN stored.receiverId
                                                    ELSE stored.senderId

\* The message carries the envelope, the flag and the text of the body.
SameEnvelope(message, body) ==
    /\ message.encryptedData = body.encryptedData
    /\ message.iv = body.iv
    /\ message.authTag = body.authTag
    /\ message.isEncrypted = body.isEncrypted
    /\ message.text = body.text

\* C26: for a message posted with isEncrypted true and an envelope, the
\* encryptedData, iv, authTag, isEncrypted and text in the answer of
\* postMessage, in its 'newMessage' emission and in every later answer of
\* getMessages to a participant are exactly the values that were posted.
C26_EnvelopeAsPosted ==
    \A i \in 1..Len(chat.posts) :
        LET post == chat.posts[i]
        IN  post.body.isEncrypted =>
                /\ post.answer.id = i /\ SameEnvelope(post.answer, post.body)
                /\ post.emitted.id = i /\ SameEnvelope(post.emitted, post.body)
                /\ \A reader \in Participants :
                       LET response == getMessages(chat.db, reader)
                       IN  /\ response.status = 200
                           /\ \A j \in 1..Len(response.messages) :
                                  response.messages[j].id = i =>
                                      SameEnvelope(response.messages[j],
                                                   post.body)

\* An encrypted message of the peer, with all three envelope fields, is in
\* the list the page has fetched.
C26_Witness ==
    \E i \in 1..Len(chat.posts), j \in 1..Len(chat.messages) :
        /\ chat.posts[i].body.isEncrypted
        /\ Len(chat.posts[i].body.encryptedData) > 0
        /\ Len(chat.posts[i].body.iv) > 0
        /\ Len(chat.posts[i].body.authTag) > 0
        /\ ~chat.fetchDue
        /\ chat.messages[j] = getMessages(chat.db, ChatMe).messages[i]
        /\ chat.messages[j].senderId = ChatPeer

\* The entry a pass over this one message alone notes for it.
AloneEntry(msg, seen) ==
    LET alone == PassRun([NoPass EXCEPT !.list = << msg >>, !.seen = seen], 1)
    IN  IF alone.pc = "finished" THEN alone.newDecrypted[msg.id]
        ELSE providerDecrypt(ChatMe, EnvelopeOf(msg), alone.peer)

\* C27: a pass of decryptMessagesAsync that has ended has gone through its
\* whole list, and every message of the list has an entry that depends on
\* this message alone (its plaintext, its text, or its placeholder): a
\* failure for one message leaves the entries of the others as they would
\* be without it.  (Of two list entries with one id the later one counts.)
C27_FailureIsPerMessage ==
    chat.pass.pc = "finished" =>
        /\ chat.pass.at = Len(chat.pass.list)
        /\ \A i \in 1..Len(chat.pass.list) :
               LET msg == chat.pass.list[i]
               IN  /\ chat.pass.newDecrypted[msg.id] # <<>>
                   /\ (\A j \in (i + 1)..Len(chat.pass.list) :
                           chat.pass.list[j].id # msg.id)
                      => chat.pass.newDecrypted[msg.id] =
                             AloneEntry(msg, chat.pass.seen)

\* A pass has ended whose first message failed to decrypt in this pass and
\* whose second message was decrypted in this pass.
C27_Witness ==
    /\ chat.pass.pc = "finished"
    /\ Len(chat.pass.list) = 2
    /\ chat.pass.list[1].id # chat.pass.list[2].id
    /\ chat.pass.list[1].isEncrypted /\ chat.pass.list[2].isEncrypted
    /\ chat.pass.seen = [i \in MessageIds |-> <<>>]
    /\ chat.pass.newDecrypted[chat.pass.list[1].id] = FacadePlaceholder
    /\ chat.pass.newDecrypted[chat.pass.list[2].id] = TypedText

\* displayMessages: the text shown for a message of the list.
displayText(msg) ==
    IF ~msg.isEncrypted THEN msg.text
    ELSE IF chat.decryptedMessages[msg.id] # <<>>
    THEN chat.decryptedMessages[msg.id]
    ELSE DecryptingText

\* Nothing of the page is in flight or due: no effect is to run, no
\* decryption, fetch or send awaits its answer, no socket event waits.
PageAtRest ==
    /\ Rendered
    /\ ~chat.passDue /\ ~chat.fetchDue
    /\ chat.pass.pc # "await"
    /\ chat.incoming = {}
    /\ chat.socket = <<>>
    /\ chat.send.pc = "idle"

\* C28: while the provider is initialized and the contact is active, every
\* encrypted message of the loaded list comes to show its plaintext or a
\* failure placeholder; stated on the runs' final results: once the page is
\* at rest no message shows 'Decrypting...'.
C28_NoMessageStaysDecrypting ==
    (PageAtRest /\ chat.isCryptoInitialized /\ Joined) =>
        \A i \in 1..Len(chat.messages) :
            displayText(chat.messages[i]) # DecryptingText

\* C29: handleNewMessage adds a message of a given id to the conversation
\* state at most once, also when the message is delivered twice or when two
\* deliveries are handled before the page has rendered with the new
\* processedMessageIds.
C29_AddedAtMostOnce ==
    \A id \in MessageIds : chat.added[id] <= 1

\* C30: a user who stays logged in gets an initialized engine once the
\* directory and the storage answer: a failed automatic initialization is
\* followed by another attempt.  Stated on the runs' final results: when a
\* user is logged in, every effect has run and no call is in flight or
\* unanswered, the provider is initialized.
C30_LoggedInBecomesReady ==
    (/\ user # ""
     /\ Quiet
     /\ \A t \in TaskIds : tasks[t].pc = "idle") => isInitialized

====
